---- MODULE Spec2Model ----
(***************************************************************************)
(* The collector of raava (src/raava/collector.py) over the ZooKeeper       *)
(* namespace of src/raava/zoo.py: the running sweep (requeue of abandoned  *)
(* tasks, removal of finished or orphaned running records) and the control *)
(* sweep (reaping of finished jobs), run by several collectors beside the  *)
(* intake, the splitter and the workers.                                   *)
(*                                                                         *)
(* The coordination store is modelled node by node: a node is a path (a    *)
(* tuple of names) with a payload and an ephemeral owner; create, delete,  *)
(* set and the multi-operation transaction fail as ZooKeeper's do          *)
(* (NoNode, NodeExists, NotEmpty), and a failed transaction changes        *)
(* nothing.  collector.py names the lock children zoo.RUNNING_LOCK and     *)
(* zoo.CONTROL_LOCK and the task children zoo.CONTROL_TASK_ADDED and       *)
(* zoo.CONTROL_TASK_SPLITTED; the scheme at the head of zoo.py places the  *)
(* locks at /running/<task>/lock and /control/jobs/<job>/lock, so they are *)
(* "lock" here, and the two task children are "added" and "splitted".      *)
(***************************************************************************)
EXTENDS Integers, Sequences, FiniteSets, TLC

(* ------------------------------ bounds -------------------------------- *)
\* The clock runs from 1 to MaxTime.
MaxTime == 2
\* How many times worker sessions may be lost in one behaviour.
MaxDeaths == 2

(* ----------------------------- parameters ------------------------------ *)
Jobs == {"j1"}
TaskIds == {"t1"}
Workers == {"w1", "w2"}
Collectors == {"c1", "c2"}
\* CollectorThread._delay, in clock ticks.
Delay == 1
\* The priority lq_put gives an entry when its caller passes none.
DefaultPriority == 100
\* The priority the collector is configured with.
RecycledPriority == 50

\* pickle.dumps(None): the payload of a node that holds no value yet.
None == -1
\* The ephemeralOwner of a persistent node.
Persistent == "persistent"

(* ------------------------------- paths --------------------------------- *)
RUNNING_PATH == <<"running">>
CONTROL_JOBS_PATH == <<"control", "jobs">>
RUNNING_LOCK == "lock"
CONTROL_LOCK == "lock"
CONTROL_VERSION == "version"
CONTROL_PARENTS == "parents"
CONTROL_ADDED == "added"
CONTROL_SPLITTED == "splitted"
CONTROL_CANCEL == "cancel"
CONTROL_TASKS == "tasks"
CONTROL_TASK_ADDED == "added"
CONTROL_TASK_SPLITTED == "splitted"
CONTROL_TASK_CREATED == "created"
CONTROL_TASK_RECYCLED == "recycled"
CONTROL_TASK_FINISHED == "finished"
CONTROL_TASK_STATUS == "status"
CONTROL_TASK_EXC == "exc"

join(p, names) == p \o names
RunningPath(t) == join(RUNNING_PATH, <<t>>)
RunningLockPath(t) == join(RUNNING_PATH, <<t, RUNNING_LOCK>>)
JobPath(j) == join(CONTROL_JOBS_PATH, <<j>>)
TasksPath(j) == join(CONTROL_JOBS_PATH, <<j, CONTROL_TASKS>>)
TaskPath(j, t) == join(CONTROL_JOBS_PATH, <<j, CONTROL_TASKS, t>>)
TaskNode(j, t, name) == join(CONTROL_JOBS_PATH, <<j, CONTROL_TASKS, t, name>>)

(* ------------------------ the coordination store ----------------------- *)
\* A store is [nodes, ready, taken, seq]: the tree below /running and
\* /control, the entries of the /ready queue (<path>/entries/entry-<pri>-<seq>),
\* their locks (<path>/taken/<entry>) and the sequence counter of /ready/entries.
IsChild(q, p) == Len(q) = Len(p) + 1 /\ SubSeq(q, 1, Len(p)) = p
Parent(p) == SubSeq(p, 1, Len(p) - 1)
Exists(n, p) == p \in DOMAIN n
HasChildren(n, p) == \E q \in DOMAIN n : IsChild(q, p)
GetChildren(n, p) == {q[Len(q)] : q \in {r \in DOMAIN n : IsChild(r, p)}}
Node(data, owner) == [data |-> data, owner |-> owner]

OpCreate(path, data, owner) ==
    [op |-> "create", path |-> path, data |-> data, owner |-> owner, pri |-> 0]
OpDelete(path) ==
    [op |-> "delete", path |-> path, data |-> None, owner |-> Persistent, pri |-> 0]
OpSet(path, data) ==
    [op |-> "set", path |-> path, data |-> data, owner |-> Persistent, pri |-> 0]
OpCreateSeq(pri, data) ==
    [op |-> "create_seq", path |-> <<"ready", "entries">>, data |-> data,
     owner |-> Persistent, pri |-> pri]
OpConsume(entry) ==
    [op |-> "consume", path |-> <<"ready", "entries">>, data |-> entry,
     owner |-> Persistent, pri |-> 0]

\* One operation on a store: [res, s], res "ok" or the error ZooKeeper answers.
ApplyOp(s, o) ==
    CASE o.op = "create" ->
           IF Exists(s.nodes, o.path)
           THEN [res |-> "NodeExistsError", s |-> s]
           ELSE IF Parent(o.path) # <<>> /\ ~Exists(s.nodes, Parent(o.path))
           THEN [res |-> "NoNodeError", s |-> s]
           ELSE IF Parent(o.path) # <<>> /\ s.nodes[Parent(o.path)].owner # Persistent
           THEN [res |-> "NoChildrenForEphemeralsError", s |-> s]
           ELSE [res |-> "ok",
                 s |-> [s EXCEPT !.nodes = (o.path :> Node(o.data, o.owner)) @@ @]]
      [] o.op = "delete" ->
           IF ~Exists(s.nodes, o.path)
           THEN [res |-> "NoNodeError", s |-> s]
           ELSE IF HasChildren(s.nodes, o.path)
           THEN [res |-> "NotEmptyError", s |-> s]
           ELSE [res |-> "ok",
                 s |-> [s EXCEPT !.nodes = [q \in DOMAIN @ \ {o.path} |-> @[q]]]]
      [] o.op = "set" ->
           IF ~Exists(s.nodes, o.path)
           THEN [res |-> "NoNodeError", s |-> s]
           ELSE [res |-> "ok",
                 s |-> [s EXCEPT !.nodes[o.path].data = o.data]]
      [] o.op = "create_seq" ->
           [res |-> "ok",
            s |-> [s EXCEPT !.ready = @ \cup {[pri |-> o.pri, seq |-> s.seq,
                                                data |-> o.data]},
                            !.seq = @ + 1]]
      [] o.op = "consume" ->
           IF o.data \notin s.ready \/ ~\E k \in s.taken : k.seq = o.data.seq
           THEN [res |-> "NoNodeError", s |-> s]
           ELSE [res |-> "ok",
                 s |-> [s EXCEPT !.ready = @ \ {o.data},
                                 !.taken = {k \in @ : k.seq # o.data.seq}]]

\* The operations of a transaction, one after another, up to the first that
\* fails.  Each intermediate store is bound to a variable, to be computed once.
RECURSIVE ApplyOps(_, _)
ApplyOps(s, ops) ==
    IF ops = <<>> THEN [ok |-> TRUE, s |-> s]
    ELSE CHOOSE out \in {IF r.res # "ok" THEN [ok |-> FALSE, s |-> s]
                          ELSE ApplyOps(r.s, rest) :
                          r \in {ApplyOp(s, Head(ops))}, rest \in {Tail(ops)}} : TRUE

\* trans.commit() and check_transaction: every operation or none.
Commit(s, ops) ==
    CHOOSE out \in {IF r.ok THEN r ELSE [ok |-> FALSE, s |-> s] :
                     r \in {ApplyOps(s0, ops0) : s0 \in {s}, ops0 \in {ops}}} : TRUE

\* The end of a session: its ephemeral nodes go.
DropSession(s, owner) ==
    [s EXCEPT !.nodes = [q \in {p \in DOMAIN @ : @[p].owner # owner} |-> @[q]],
              !.taken = {k \in @ : k.owner # owner}]

(* -------------------------------- state -------------------------------- *)
VARIABLES
    nodes,      \* path -> [data, owner]: the nodes below /running and /control
    ready,      \* the entries of /ready: [pri, seq, data]
    taken,      \* the locks of claimed /ready entries: [seq, owner]
    seq,        \* the next sequence number of /ready/entries
    input,      \* the jobs waiting in /input
    now,        \* time.time()
    issued,     \* the job and task uuids handed out so far
    wpc,        \* worker -> where it is in its loop
    wentry,     \* worker -> the /ready entry it claimed
    deaths,     \* worker sessions lost so far
    cpc,        \* collector -> where it is in run()
    ctodo,      \* collector -> the children its loop has still to visit
    ccur,       \* collector -> the task_id or job_id of the iteration
    cjob,       \* collector -> job_id, read from the running record
    cgarbage,   \* collector -> the iteration took the NoNodeError branch
    lpc,        \* SingleLock client -> where it is in try_acquire / acquire
    lwatch,     \* the clients with an exists-watch on the lock node
    levent,     \* the clients whose threading.Event is set
    ipc,        \* IncrementalCounter client -> where it is in increment()
    ival,       \* IncrementalCounter client -> its local value
    idone,      \* the values returned by the increments completed so far
    iprior,     \* the counter before the first increment
    qpc,        \* consumer -> where its thread is in get() / _inner_get()
    qabort,     \* consumer -> self._abort
    qflag,      \* consumer -> flag.isSet()
    qvalue,     \* consumer -> the entry in value[], or NoEntry
    qproc,      \* consumer -> self.processing_element, or NoEntry
    qcand,      \* consumer -> available[0] of the check_for_updates under way
    qcb,        \* consumer -> a watch callback is between its reads and _take
    qev,        \* consumer -> a watch event waits for its callback
    qwatch,     \* the consumers with child watches on entries and taken
    qasked,     \* consumer -> abort_get() was called since get() began
    qret,       \* consumer -> the payload its last get() returned
    event_root, \* get_handlers: the event, [event: its attributes, extra]
    handlers,   \* get_handlers: handler_type -> the handlers registered
    gpc,        \* where the call of get_handlers is
    gtodo,      \* the handlers its loop has still to visit
    selected_set, \* get_handlers: selected_set
    gresult,    \* the set get_handlers returned
    max_fails,  \* Application: config max_fails, or None
    respawns,   \* Application: self._respawns
    stop_event, \* Application: self._stop_event.is_set()
    runpc,      \* where Application.run() is
    retcode,    \* what run() returned: <<>> until it returns
    passes,     \* the calls of process() so far
    consecutive \* the calls of process() that raised since the last that returned

wvars == <<wpc, wentry, deaths>>
cvars == <<cpc, ctodo, ccur, cjob, cgarbage>>
lockvars == <<lpc, lwatch, levent>>
\* The state of the recipes of zoo.py, which the sweeps leave alone.
ctrvars == <<ipc, ival, idone, iprior>>
qvars == <<qpc, qabort, qflag, qvalue, qproc, qcand, qcb, qev, qwatch, qasked, qret>>
rulevars == <<event_root, handlers, gpc, gtodo, selected_set, gresult>>
runvars == <<max_fails, respawns, stop_event, runpc, retcode, passes, consecutive>>
libvars == <<lockvars, ctrvars, qvars, rulevars, runvars>>
\* The state of the sweeps, the workers and the queues around them.
appvars == <<ready, taken, seq, input, now, issued, wvars, cvars>>
vars == <<nodes, ready, taken, seq, input, now, issued, wpc, wentry, deaths,
          cpc, ctodo, ccur, cjob, cgarbage, libvars>>

\* The clients of the lock and of the counter.
Clients == {"k1", "k2", "k3"}

\* The consumers of a queue.
Consumers == {"k1", "k2"}

\* No entry of a queue.
NoEntry == [pri |-> 0, seq |-> -1,
            data |-> [job_id |-> "", task_id |-> "", handler |-> "", state |-> 0]]

\* No client of a recipe has started.
LibInit ==
    /\ lpc = [k \in Clients |-> "idle"]
    /\ lwatch = {}
    /\ levent = {}
    /\ ipc = [k \in Clients |-> "idle"]
    /\ ival = [k \in Clients |-> 0]
    /\ idone = <<>>
    /\ iprior = IF <<"core", "jobs_counter">> \in DOMAIN nodes
                   /\ nodes[<<"core", "jobs_counter">>].data >= 0
                THEN nodes[<<"core", "jobs_counter">>].data ELSE 0
    /\ qpc = [k \in Consumers |-> "idle"]
    /\ qabort = [k \in Consumers |-> FALSE]
    /\ qflag = [k \in Consumers |-> FALSE]
    /\ qvalue = [k \in Consumers |-> NoEntry]
    /\ qproc = [k \in Consumers |-> NoEntry]
    /\ qcand = [k \in Consumers |-> NoEntry]
    /\ qcb = [k \in Consumers |-> FALSE]
    /\ qev = [k \in Consumers |-> FALSE]
    /\ qwatch = {}
    /\ qasked = [k \in Consumers |-> FALSE]
    /\ qret = [k \in Consumers |-> NoEntry.data]

\* get_handlers has not been called.
RulesIdle ==
    /\ gpc = "idle"
    /\ gtodo = {}
    /\ selected_set = {}
    /\ gresult = {}

Store == [nodes |-> nodes, ready |-> ready, taken |-> taken, seq |-> seq]
SetStore(s) ==
    /\ nodes' = s.nodes
    /\ ready' = s.ready
    /\ taken' = s.taken
    /\ seq' = s.seq

\* No sweep and no worker has started.
AppInit ==
    /\ ready = {}
    /\ taken = {}
    /\ seq = 0
    /\ input = {}
    /\ now = 1
    /\ issued = {}
    /\ wpc = [w \in Workers |-> "idle"]
    /\ wentry = [w \in Workers |-> NoEntry]
    /\ deaths = 0
    /\ cpc = [c \in Collectors |-> "sleep"]
    /\ ctodo = [c \in Collectors |-> {}]
    /\ ccur = [c \in Collectors |-> ""]
    /\ cjob = [c \in Collectors |-> ""]
    /\ cgarbage = [c \in Collectors |-> FALSE]

\* An event nobody matches against an empty registry.
NoRules ==
    /\ event_root = [event |-> <<>>, extra |-> <<>>]
    /\ handlers = <<>>
    /\ RulesIdle

\* Application.run() has not been called.
RunIdle ==
    /\ respawns = 0
    /\ stop_event = FALSE
    /\ runpc = "init"
    /\ retcode = <<>>
    /\ passes = 0
    /\ consecutive = 0

\* Nothing is queued and no thread has started.
IdleInit ==
    /\ AppInit
    /\ LibInit
    /\ NoRules
    /\ max_fails = None
    /\ RunIdle

Init ==
    /\ nodes = (<<"running">> :> Node(None, Persistent))
               @@ (<<"control">> :> Node(None, Persistent))
               @@ (<<"control", "jobs">> :> Node(None, Persistent))
    /\ IdleInit

Tick ==
    /\ now < MaxTime
    /\ now' = now + 1
    /\ UNCHANGED <<nodes, ready, taken, seq, input, issued, wvars, cvars>>
    /\ UNCHANGED libvars

(* ------------------------------ intake --------------------------------- *)
\* Event intake: a fresh job id, the job record and the /input entry in one
\* transaction.
Intake(j) ==
    /\ j \notin issued
    /\ LET r == Commit(Store, <<OpCreate(JobPath(j), None, Persistent),
                                OpCreate(join(JobPath(j), <<CONTROL_VERSION>>), 1, Persistent),
                                OpCreate(join(JobPath(j), <<CONTROL_PARENTS>>), 0, Persistent),
                                OpCreate(join(JobPath(j), <<CONTROL_ADDED>>), now, Persistent)>>)
       IN /\ r.ok
          /\ SetStore(r.s)
    /\ input' = input \cup {j}
    /\ issued' = issued \cup {j}
    /\ UNCHANGED <<now, wvars, cvars>>
    /\ UNCHANGED libvars

\* Cancel: the marker node of the job.
Cancel(j) ==
    /\ Exists(nodes, JobPath(j))
    /\ ~Exists(nodes, join(JobPath(j), <<CONTROL_CANCEL>>))
    /\ SetStore(ApplyOp(Store, OpCreate(join(JobPath(j), <<CONTROL_CANCEL>>), None, Persistent)).s)
    /\ UNCHANGED <<input, now, issued, wvars, cvars>>
    /\ UNCHANGED libvars

(* ------------------------------ splitter ------------------------------- *)
RECURSIVE SetToSeq(_)
SetToSeq(S) ==
    IF S = {} THEN <<>>
    ELSE LET x == CHOOSE y \in S : TRUE IN <<x>> \o SetToSeq(S \ {x})

RECURSIVE Flatten(_)
Flatten(ss) == IF ss = <<>> THEN <<>> ELSE Head(ss) \o Flatten(Tail(ss))

ReadyData(j, t, handler, state) ==
    [job_id |-> j, task_id |-> t, handler |-> handler, state |-> state]

\* The nodes and the /ready entry of one new task.
NewTaskOps(j, t) ==
    <<OpCreate(TaskPath(j, t), None, Persistent),
      OpCreate(TaskNode(j, t, CONTROL_TASK_STATUS), "new", Persistent),
      OpCreate(TaskNode(j, t, CONTROL_TASK_CREATED), None, Persistent),
      OpCreate(TaskNode(j, t, CONTROL_TASK_RECYCLED), None, Persistent),
      OpCreate(TaskNode(j, t, CONTROL_TASK_FINISHED), None, Persistent),
      OpCreateSeq(DefaultPriority, ReadyData(j, t, "H", 0))>>

\* The splitter takes job j from /input and, for the handlers that match
\* (ts: one fresh task id each; none for a cancelled job), creates the tasks,
\* enqueues them and marks the job splitted, in one transaction.
Split(j, ts) ==
    /\ j \in input
    /\ ts \cap issued = {}
    /\ Exists(nodes, join(JobPath(j), <<CONTROL_CANCEL>>)) => ts = {}
    /\ LET tseq == SetToSeq(ts)
           r == Commit(Store,
                  <<OpCreate(TasksPath(j), None, Persistent)>>
                  \o Flatten([i \in 1..Len(tseq) |-> NewTaskOps(j, tseq[i])])
                  \o <<OpCreate(join(JobPath(j), <<CONTROL_SPLITTED>>), now, Persistent)>>)
       IN /\ r.ok
          /\ SetStore(r.s)
    /\ input' = input \ {j}
    /\ issued' = issued \cup ts
    /\ UNCHANGED <<now, wvars, cvars>>
    /\ UNCHANGED libvars

(* ------------------------------- worker -------------------------------- *)
\* entry-<pri:03d>-<seq:010d>: the order of the entry names.
\* The decimal digits of n, as character codes.
RECURSIVE Digits(_)
Digits(n) == IF n < 10 THEN <<48 + n>> ELSE Digits(n \div 10) \o <<48 + (n % 10)>>

\* {:03d} and ZooKeeper's %010d: zeros in front up to the width, never a cut.
RECURSIVE Pad(_, _)
Pad(ds, width) == IF Len(ds) >= width THEN ds ELSE Pad(<<48>> \o ds, width)

\* The name of an entry after the common "entry-": <priority:03d>-<seq:010d>.
EntryName(pri, sq) == Pad(Digits(pri), 3) \o <<45>> \o Pad(Digits(sq), 10)

\* The order of strings, by which the names are sorted.
RECURSIVE LexLess(_, _)
LexLess(a, b) ==
    IF b = <<>> THEN FALSE
    ELSE IF a = <<>> THEN TRUE
    ELSE IF Head(a) # Head(b) THEN Head(a) < Head(b)
    ELSE LexLess(Tail(a), Tail(b))

NameLess(a, b) == LexLess(EntryName(a.pri, a.seq), EntryName(b.pri, b.seq))
Available == {e \in ready : ~\E k \in taken : k.seq = e.seq}

\* get(): claim the smallest entry nobody holds.
WGet(w) ==
    /\ wpc[w] = "idle"
    /\ \E e \in Available :
         /\ \A f \in Available : f = e \/ NameLess(e, f)
         /\ taken' = taken \cup {[seq |-> e.seq, owner |-> w]}
         /\ wentry' = [wentry EXCEPT ![w] = e]
    /\ wpc' = [wpc EXCEPT ![w] = "claimed"]
    /\ UNCHANGED <<nodes, ready, seq, input, now, issued, deaths, cvars>>
    /\ UNCHANGED libvars

\* Steps 2 and 3: a cancelled job's task is finished at once; otherwise the
\* running record, its ephemeral lock and the consumption of the entry, in one
\* transaction.
WRegister(w) ==
    /\ wpc[w] = "claimed"
    /\ LET d == wentry[w].data
           cancelled == Exists(nodes, join(JobPath(d.job_id), <<CONTROL_CANCEL>>))
           ops == IF cancelled
                  THEN <<OpSet(TaskNode(d.job_id, d.task_id, CONTROL_TASK_FINISHED), now),
                         OpSet(TaskNode(d.job_id, d.task_id, CONTROL_TASK_STATUS), "finished"),
                         OpConsume(wentry[w])>>
                  ELSE <<OpCreate(RunningPath(d.task_id),
                                  [job_id |-> d.job_id, handler |-> d.handler,
                                   state |-> d.state], Persistent),
                         OpCreate(RunningLockPath(d.task_id), None, w),
                         OpConsume(wentry[w])>>
           r == Commit(Store, ops)
       IN /\ SetStore(r.s)
          /\ wpc' = [wpc EXCEPT ![w] = IF r.ok /\ ~cancelled THEN "registered" ELSE "idle"]
          /\ wentry' = [wentry EXCEPT ![w] = IF r.ok /\ ~cancelled THEN @ ELSE NoEntry]
    /\ UNCHANGED <<input, now, issued, deaths, cvars>>
    /\ UNCHANGED libvars

\* Step 4: created, if unset, and status=ready.
WStart(w) ==
    /\ wpc[w] = "registered"
    /\ LET d == wentry[w].data
           p == TaskNode(d.job_id, d.task_id, CONTROL_TASK_CREATED)
           r == Commit(Store,
                  (IF Exists(nodes, p) /\ nodes[p].data # None THEN <<>> ELSE <<OpSet(p, now)>>)
                  \o <<OpSet(TaskNode(d.job_id, d.task_id, CONTROL_TASK_STATUS), "ready")>>)
       IN SetStore(r.s)
    /\ wpc' = [wpc EXCEPT ![w] = "running"]
    /\ UNCHANGED <<input, now, issued, wentry, deaths, cvars>>
    /\ UNCHANGED libvars

\* Step 6, finished or failed: the running record and its lock go, finished and
\* status are set, and exc when the handler failed, in one transaction.
WFinish(w, failed) ==
    /\ wpc[w] = "running"
    /\ LET d == wentry[w].data
           r == Commit(Store,
                  <<OpDelete(RunningLockPath(d.task_id)),
                    OpDelete(RunningPath(d.task_id)),
                    OpSet(TaskNode(d.job_id, d.task_id, CONTROL_TASK_FINISHED), now),
                    OpSet(TaskNode(d.job_id, d.task_id, CONTROL_TASK_STATUS), "finished")>>
                  \o (IF failed
                      THEN <<OpCreate(TaskNode(d.job_id, d.task_id, CONTROL_TASK_EXC), 1, Persistent)>>
                      ELSE <<>>))
       IN SetStore(r.s)
    /\ wpc' = [wpc EXCEPT ![w] = "idle"]
    /\ wentry' = [wentry EXCEPT ![w] = NoEntry]
    /\ UNCHANGED <<input, now, issued, deaths, cvars>>
    /\ UNCHANGED libvars

\* The worker's session is lost: its ephemeral nodes go and the worker is gone.
WDie(w) ==
    /\ wpc[w] # "dead"
    /\ deaths < MaxDeaths
    /\ SetStore(DropSession(Store, w))
    /\ wpc' = [wpc EXCEPT ![w] = "dead"]
    /\ wentry' = [wentry EXCEPT ![w] = NoEntry]
    /\ deaths' = deaths + 1
    /\ UNCHANGED <<input, now, issued, cvars>>
    /\ UNCHANGED libvars

(* ------------------------------ SingleLock ----------------------------- *)
\* try_acquire() that takes NodeExistsError for success.
TryAcquireBlind(s, path, owner) ==
    LET r == ApplyOp(s, OpCreate(path, None, owner))
    IN [ok |-> r.res \in {"ok", "NodeExistsError"}, s |-> r.s]

\* try_acquire(): true when the ephemeral node was created, false on
\* NodeExistsError and (fatal unset) on NoNodeError.
TryAcquire(s, path, owner) ==
    LET r == ApplyOp(s, OpCreate(path, None, owner))
    IN [ok |-> r.res = "ok", s |-> r.s]

(* ------------------------------ collector ------------------------------ *)
\* created or 0, recycled or 0
Or0(v) == IF v = None THEN 0 ELSE v
Max(a, b) == IF a >= b THEN a ELSE b

\* events.is_finished(client, job_id): every task finished, or no task at all
\* and splitted set; NoNodeError when the job is gone.
IsFinished(n, j) ==
    IF ~Exists(n, JobPath(j)) THEN "NoNodeError"
    ELSE IF ~Exists(n, TasksPath(j)) THEN "no"
    ELSE IF \A t \in GetChildren(n, TasksPath(j)) :
              /\ Exists(n, TaskNode(j, t, CONTROL_TASK_FINISHED))
              /\ n[TaskNode(j, t, CONTROL_TASK_FINISHED)].data # None
         THEN (IF GetChildren(n, TasksPath(j)) = {}
                  /\ ~Exists(n, join(JobPath(j), <<CONTROL_SPLITTED>>))
               THEN "no" ELSE "yes")
    ELSE "no"

\* The locals of an iteration die with it.
EndIteration(c) ==
    /\ ccur' = [ccur EXCEPT ![c] = ""]
    /\ cjob' = [cjob EXCEPT ![c] = ""]
    /\ cgarbage' = [cgarbage EXCEPT ![c] = FALSE]

\* run(): the sleep is over; _poll_running lists the children of /running.
PollRunning(c) ==
    /\ cpc[c] = "sleep"
    /\ cpc' = [cpc EXCEPT ![c] = "running"]
    /\ ctodo' = [ctodo EXCEPT ![c] = GetChildren(nodes, RUNNING_PATH)]
    /\ UNCHANGED <<nodes, ready, taken, seq, input, now, issued, wvars, ccur, cjob, cgarbage>>
    /\ UNCHANGED libvars

\* The reads of one iteration of _poll_running: the running record and the
\* task's created and recycled, NoNodeError when one of them is absent.
RunningRead(n, t) ==
    IF ~Exists(n, RunningPath(t)) THEN [res |-> "NoNodeError", job_id |-> "", stamp |-> 0]
    ELSE LET job_id == n[RunningPath(t)].data.job_id
         IN IF Exists(n, TaskNode(job_id, t, CONTROL_TASK_CREATED))
               /\ Exists(n, TaskNode(job_id, t, CONTROL_TASK_RECYCLED))
            THEN [res |-> "ok", job_id |-> job_id,
                  stamp |-> Max(Or0(n[TaskNode(job_id, t, CONTROL_TASK_CREATED)].data),
                                Or0(n[TaskNode(job_id, t, CONTROL_TASK_RECYCLED)].data))]
            ELSE [res |-> "NoNodeError", job_id |-> job_id, stamp |-> 0]

\* max(created or 0, recycled or 0) + self._delay > time.time()
TooYoung(stamp, time) == stamp + Delay > time

\* One iteration of _poll_running up to the lock: the reads and the age test.
PollRunningTask(c, t) ==
    /\ cpc[c] = "running"
    /\ t \in ctodo[c]
    /\ LET r == RunningRead(nodes, t)
       IN IF r.res = "ok" /\ TooYoung(r.stamp, now)
          THEN /\ ctodo' = [ctodo EXCEPT ![c] = @ \ {t}]
               /\ UNCHANGED <<cpc, ccur, cjob, cgarbage>>
          ELSE /\ cpc' = [cpc EXCEPT ![c] = "lock"]
               /\ ccur' = [ccur EXCEPT ![c] = t]
               /\ cjob' = [cjob EXCEPT ![c] = r.job_id]
               /\ cgarbage' = [cgarbage EXCEPT ![c] = r.res # "ok"]
               /\ ctodo' = [ctodo EXCEPT ![c] = @ \ {t}]
    /\ UNCHANGED <<nodes, ready, taken, seq, input, now, issued, wvars>>
    /\ UNCHANGED libvars

\* lock.try_acquire() on /running/<task_id>/lock, on either branch.
RunningLock(c) ==
    /\ cpc[c] = "lock"
    /\ LET r == TryAcquire(Store, RunningLockPath(ccur[c]), c)
       IN /\ SetStore(r.s)
          /\ cpc' = [cpc EXCEPT ![c] = IF ~r.ok THEN "running"
                                       ELSE IF cgarbage[c] THEN "remove"
                                       ELSE "finished"]
          /\ IF r.ok THEN UNCHANGED <<ccur, cjob, cgarbage>> ELSE EndIteration(c)
    /\ UNCHANGED <<input, now, issued, wvars, ctodo>>
    /\ UNCHANGED libvars

\* pget(.../finished) is None: push back, else remove.  A NoNodeError here is
\* caught nowhere and ends the thread.
CheckFinished(c) ==
    /\ cpc[c] = "finished"
    /\ LET p == TaskNode(cjob[c], ccur[c], CONTROL_TASK_FINISHED)
       IN cpc' = [cpc EXCEPT ![c] = IF ~Exists(nodes, p) THEN "crashed"
                                    ELSE IF nodes[p].data = None THEN "push"
                                    ELSE "remove"]
    /\ UNCHANGED <<nodes, ready, taken, seq, input, now, issued, wvars, ctodo, ccur, cjob, cgarbage>>
    /\ UNCHANGED libvars

\* The payload with the task's id where the job's belongs.
PushBackDataSwapped(task_id, running_dict) ==
    [job_id |-> task_id, task_id |-> task_id,
     handler |-> running_dict.handler, state |-> running_dict.state]

\* The payload with the state a new task starts from.
PushBackDataNoState(task_id, running_dict) ==
    [job_id |-> running_dict.job_id, task_id |-> task_id,
     handler |-> running_dict.handler, state |-> 0]

\* The /ready payload _push_back_running builds from the running record.
PushBackData(task_id, running_dict) ==
    [job_id |-> running_dict.job_id, task_id |-> task_id,
     handler |-> running_dict.handler, state |-> running_dict.state]

\* The transaction without the set of recycled.
PushBackOpsNoRecycled(task_id, running_dict, time) ==
    <<OpDelete(RunningLockPath(task_id)),
      OpDelete(RunningPath(task_id)),
      OpCreateSeq(DefaultPriority,
                  [job_id |-> running_dict.job_id, task_id |-> task_id,
                   handler |-> running_dict.handler, state |-> running_dict.state])>>

\* The transaction without the delete of the running record.
PushBackOpsKeepRunning(task_id, running_dict, time) ==
    <<OpDelete(RunningLockPath(task_id)),
      OpCreateSeq(DefaultPriority,
                  [job_id |-> running_dict.job_id, task_id |-> task_id,
                   handler |-> running_dict.handler, state |-> running_dict.state]),
      OpSet(TaskNode(running_dict.job_id, task_id, CONTROL_TASK_RECYCLED), time)>>

\* The transaction of _push_back_running.
PushBackOps(task_id, running_dict, time) ==
    <<OpDelete(RunningLockPath(task_id)),
      OpDelete(RunningPath(task_id)),
      OpCreateSeq(DefaultPriority, PushBackData(task_id, running_dict)),
      OpSet(TaskNode(running_dict.job_id, task_id, CONTROL_TASK_RECYCLED), time)>>

\* _push_back_running: a TransactionError is logged; the NoNodeError of the
\* first pget is caught nowhere.
PushBackRunning(c) ==
    /\ cpc[c] = "push"
    /\ SetStore(IF Exists(nodes, RunningPath(ccur[c]))
                THEN Commit(Store, PushBackOps(ccur[c], nodes[RunningPath(ccur[c])].data, now)).s
                ELSE Store)
    /\ cpc' = [cpc EXCEPT ![c] = IF Exists(nodes, RunningPath(ccur[c]))
                                  THEN "running" ELSE "crashed"]
    /\ EndIteration(c)
    /\ UNCHANGED <<input, now, issued, wvars, ctodo>>
    /\ UNCHANGED libvars

\* A _remove_running that puts the task back on /ready.
RemoveRunningOpsRequeue(task_id) ==
    <<OpDelete(RunningLockPath(task_id)), OpDelete(RunningPath(task_id)),
      OpCreateSeq(DefaultPriority, ReadyData("", task_id, "", 0))>>

\* The transaction of _remove_running.
RemoveRunningOps(task_id) ==
    <<OpDelete(RunningLockPath(task_id)), OpDelete(RunningPath(task_id))>>

RemoveRunning(c) ==
    /\ cpc[c] = "remove"
    /\ SetStore(Commit(Store, RemoveRunningOps(ccur[c])).s)
    /\ cpc' = [cpc EXCEPT ![c] = "running"]
    /\ EndIteration(c)
    /\ UNCHANGED <<input, now, issued, wvars, ctodo>>
    /\ UNCHANGED libvars

\* _poll_running is through; _poll_control lists the children of /control/jobs.
PollControl(c) ==
    /\ cpc[c] = "running"
    /\ ctodo[c] = {}
    /\ cpc' = [cpc EXCEPT ![c] = "control"]
    /\ ctodo' = [ctodo EXCEPT ![c] = GetChildren(nodes, CONTROL_JOBS_PATH)]
    /\ UNCHANGED <<nodes, ready, taken, seq, input, now, issued, wvars, ccur, cjob, cgarbage>>
    /\ UNCHANGED libvars

\* The test left out: every job listed is gone for.
EligibleAlways(n, j) == TRUE

\* if not events.is_finished(...): continue; a NoNodeError continues too.
Eligible(n, j) == IsFinished(n, j) = "yes"

\* One iteration of _poll_control up to the lock.
PollControlJob(c, j) ==
    /\ cpc[c] = "control"
    /\ j \in ctodo[c]
    /\ ctodo' = [ctodo EXCEPT ![c] = @ \ {j}]
    /\ IF Eligible(nodes, j)
       THEN /\ cpc' = [cpc EXCEPT ![c] = "joblock"]
            /\ ccur' = [ccur EXCEPT ![c] = j]
       ELSE UNCHANGED <<cpc, ccur>>
    /\ UNCHANGED <<nodes, ready, taken, seq, input, now, issued, wvars, cjob, cgarbage>>
    /\ UNCHANGED libvars

\* lock.try_acquire() on /control/jobs/<job_id>/lock.
ControlLock(c) ==
    /\ cpc[c] = "joblock"
    /\ LET r == TryAcquire(Store, join(JobPath(ccur[c]), <<CONTROL_LOCK>>), c)
       IN /\ SetStore(r.s)
          /\ cpc' = [cpc EXCEPT ![c] = IF r.ok THEN "remove_control" ELSE "control"]
          /\ IF r.ok THEN UNCHANGED <<ccur, cjob, cgarbage>> ELSE EndIteration(c)
    /\ UNCHANGED <<input, now, issued, wvars, ctodo>>
    /\ UNCHANGED libvars

\* The deletes of one task in _remove_control.
RemoveTaskOps(job_id, task_id) ==
    <<OpDelete(TaskNode(job_id, task_id, CONTROL_TASK_ADDED)),
      OpDelete(TaskNode(job_id, task_id, CONTROL_TASK_SPLITTED)),
      OpDelete(TaskNode(job_id, task_id, CONTROL_TASK_CREATED)),
      OpDelete(TaskNode(job_id, task_id, CONTROL_TASK_RECYCLED)),
      OpDelete(TaskNode(job_id, task_id, CONTROL_TASK_FINISHED)),
      OpDelete(TaskNode(job_id, task_id, CONTROL_TASK_STATUS)),
      OpDelete(TaskPath(job_id, task_id))>>

\* The transaction of _remove_control, in the order the code adds to it.
RemoveControlOps(n, job_id) ==
    LET tseq == SetToSeq(GetChildren(n, TasksPath(job_id)))
    IN <<OpDelete(join(JobPath(job_id), <<CONTROL_PARENTS>>))>>
       \o Flatten([i \in 1..Len(tseq) |-> RemoveTaskOps(job_id, tseq[i])])
       \o <<OpDelete(TasksPath(job_id)),
            OpDelete(join(JobPath(job_id), <<CONTROL_LOCK>>)),
            OpDelete(JobPath(job_id))>>
       \o (IF Exists(n, join(JobPath(job_id), <<CONTROL_CANCEL>>))
           THEN <<OpDelete(join(JobPath(job_id), <<CONTROL_CANCEL>>))>>
           ELSE <<>>)

\* _remove_control: NoNodeError (get_children of an absent tasks node) and
\* TransactionError are logged.
RemoveControl(c) ==
    /\ cpc[c] = "remove_control"
    /\ SetStore(IF Exists(nodes, TasksPath(ccur[c]))
                THEN Commit(Store, RemoveControlOps(nodes, ccur[c])).s
                ELSE Store)
    /\ cpc' = [cpc EXCEPT ![c] = "control"]
    /\ EndIteration(c)
    /\ UNCHANGED <<input, now, issued, wvars, ctodo>>
    /\ UNCHANGED libvars

\* _poll_control is through: time.sleep(self._interval).
Sleep(c) ==
    /\ cpc[c] = "control"
    /\ ctodo[c] = {}
    /\ cpc' = [cpc EXCEPT ![c] = "sleep"]
    /\ UNCHANGED <<nodes, ready, taken, seq, input, now, issued, wvars, ctodo, ccur, cjob, cgarbage>>
    /\ UNCHANGED libvars

Next ==
    \/ Tick
    \/ \E j \in Jobs : Intake(j)
    \/ \E j \in Jobs : Cancel(j)
    \/ \E j \in Jobs, ts \in SUBSET TaskIds : Split(j, ts)
    \/ \E w \in Workers : WGet(w)
    \/ \E w \in Workers : WRegister(w)
    \/ \E w \in Workers : WStart(w)
    \/ \E w \in Workers, failed \in BOOLEAN : WFinish(w, failed)
    \/ \E w \in Workers : WDie(w)
    \/ \E c \in Collectors : PollRunning(c)
    \/ \E c \in Collectors, t \in TaskIds : PollRunningTask(c, t)
    \/ \E c \in Collectors : RunningLock(c)
    \/ \E c \in Collectors : CheckFinished(c)
    \/ \E c \in Collectors : PushBackRunning(c)
    \/ \E c \in Collectors : RemoveRunning(c)
    \/ \E c \in Collectors : PollControl(c)
    \/ \E c \in Collectors, j \in Jobs : PollControlJob(c, j)
    \/ \E c \in Collectors : ControlLock(c)
    \/ \E c \in Collectors : RemoveControl(c)
    \/ \E c \in Collectors : Sleep(c)

Spec == Init /\ [][Next]_vars

\* The collector threads loop until they are stopped and the clock advances.
CollectorStep(c) ==
    \/ PollRunning(c)
    \/ \E t \in TaskIds : PollRunningTask(c, t)
    \/ RunningLock(c)
    \/ CheckFinished(c)
    \/ PushBackRunning(c)
    \/ RemoveRunning(c)
    \/ PollControl(c)
    \/ \E j \in Jobs : PollControlJob(c, j)
    \/ ControlLock(c)
    \/ RemoveControl(c)
    \/ Sleep(c)

FairSpec ==
    /\ Init /\ [][Next]_vars
    /\ \A c \in Collectors : WF_vars(CollectorStep(c))

(* ------------------------- views of the store -------------------------- *)
RunningTasks == GetChildren(nodes, RUNNING_PATH)
RunningJob(t) == nodes[RunningPath(t)].data.job_id
ReadyEntries(t) == {e \in ready : e.data.task_id = t}
ControlTasks == {jt \in Jobs \X TaskIds : Exists(nodes, TaskPath(jt[1], jt[2]))}
TaskValue(j, t, name) == nodes[TaskNode(j, t, name)].data
Subtree(n, p) == {q \in DOMAIN n : Len(q) >= Len(p) /\ SubSeq(q, 1, Len(p)) = p}

(* ------------------------------- claims -------------------------------- *)
\* What _push_back_running's transaction does to task t of job j: all four
\* effects, or none of them.
PushAll(j, t) ==
    /\ ~Exists(nodes', RunningPath(t))
    /\ ~Exists(nodes', RunningLockPath(t))
    /\ \E e \in ready' \ ready : e.data.task_id = t
    /\ Exists(nodes', TaskNode(j, t, CONTROL_TASK_RECYCLED))
    /\ nodes'[TaskNode(j, t, CONTROL_TASK_RECYCLED)].data = now
PushNone(j, t) ==
    /\ Exists(nodes', RunningPath(t)) <=> Exists(nodes, RunningPath(t))
    /\ Exists(nodes', RunningLockPath(t)) <=> Exists(nodes, RunningLockPath(t))
    /\ ready' = ready
    /\ \A p \in DOMAIN nodes : p \in DOMAIN nodes' /\ nodes'[p] = nodes[p]

\* C1: every step of _push_back_running on task t either removes /running/<t>
\* and its lock, appends a /ready entry carrying t and sets recycled to the
\* time of the call, or does none of the four.
C1_RequeueAllOrNothing ==
    [][\A c \in Collectors :
         (cpc[c] = "push" /\ cpc'[c] # "push") =>
            IF Exists(nodes, RunningPath(ccur[c]))
            THEN \/ PushAll(RunningJob(ccur[c]), ccur[c])
                 \/ PushNone(RunningJob(ccur[c]), ccur[c])
            ELSE nodes' = nodes /\ ready' = ready]_vars

\* A requeue has happened: the task is back in /ready, recycled is set and the
\* running record is gone.
C1_Witness ==
    \E jt \in ControlTasks :
        /\ TaskValue(jt[1], jt[2], CONTROL_TASK_RECYCLED) # None
        /\ ReadyEntries(jt[2]) # {}
        /\ ~Exists(nodes, RunningPath(jt[2]))

\* How often task t occurs in the /ready entries and the running records.
Occurrences(t) ==
    Cardinality(ReadyEntries(t)) + (IF Exists(nodes, RunningPath(t)) THEN 1 ELSE 0)

\* C2: a task id occurs at most once in the union of the /ready entries and
\* the /running records.
C2_AtMostOnce == \A t \in TaskIds : Occurrences(t) <= 1

\* A requeued entry is in /ready, claimed by a worker, while a collector is in
\* the middle of its running sweep on that task.
C2_Witness ==
    \E e \in ready :
        /\ e.seq >= 1
        /\ \E k \in taken : k.seq = e.seq
        /\ \E c \in Collectors : cpc[c] = "lock" /\ ccur[c] = e.data.task_id

\* C3: every /running/<t> names a job under which the control node of t exists.
C3_RunningHasControl ==
    \A t \in RunningTasks : Exists(nodes, TaskPath(RunningJob(t), t))

\* A worker has registered a task a collector had pushed back.
C3_Witness ==
    \E t \in RunningTasks :
        /\ Exists(nodes, TaskNode(RunningJob(t), t, CONTROL_TASK_RECYCLED))
        /\ TaskValue(RunningJob(t), t, CONTROL_TASK_RECYCLED) # None

\* Collector c's step removes the running record of task t.
CollectorRemoves(c, t) ==
    /\ cpc[c] \in {"push", "remove"}
    /\ ccur[c] = t
    /\ cpc'[c] = "running"
    /\ Exists(nodes, RunningPath(t))
    /\ ~Exists(nodes', RunningPath(t))

\* max(created or 0, recycled or 0) of task t of job j, as the store holds them.
Stamp(j, t) ==
    Max(Or0(TaskValue(j, t, CONTROL_TASK_CREATED)),
        Or0(TaskValue(j, t, CONTROL_TASK_RECYCLED)))

\* C4: the collector removes or requeues /running/<t> only while it holds the
\* lock node it created itself and, when the control record exists, only after
\* max(created, recycled) + delay has passed.
C4_OnlyLockedAndAged ==
    [][\A c \in Collectors, t \in TaskIds :
         CollectorRemoves(c, t) =>
            /\ Exists(nodes, RunningLockPath(t))
            /\ nodes[RunningLockPath(t)].owner = c
            /\ Exists(nodes, TaskPath(RunningJob(t), t))
                 => Stamp(RunningJob(t), t) + Delay <= now]_vars

\* The first half of C4 alone: the lock the collector created is in place at
\* every removal or requeue, so no live worker holds it.
C4_OnlyLocked ==
    [][\A c \in Collectors, t \in TaskIds :
         CollectorRemoves(c, t) =>
            /\ Exists(nodes, RunningLockPath(t))
            /\ nodes[RunningLockPath(t)].owner = c]_vars

\* The worker that registered task t of job j is gone: the running record is
\* there without its lock, finished is unset, and the stamp of the task is at
\* least the collector's delay old.
Abandoned(j, t) ==
    /\ Exists(nodes, RunningPath(t))
    /\ RunningJob(t) = j
    /\ ~Exists(nodes, RunningLockPath(t))
    /\ Exists(nodes, TaskPath(j, t))
    /\ TaskValue(j, t, CONTROL_TASK_FINISHED) = None
    /\ Stamp(j, t) + Delay <= now

Requeued(j, t) ==
    /\ ReadyEntries(t) # {}
    /\ Exists(nodes, TaskPath(j, t))
    /\ TaskValue(j, t, CONTROL_TASK_RECYCLED) # None

\* C5: once a worker's session has died with /running/<t> in place and finished
\* unset, the task is eventually back in /ready with recycled set.
C5_RecoveryLive ==
    \A j \in Jobs, t \in TaskIds : Abandoned(j, t) ~> Requeued(j, t)

\* C6: a task that is not finished and has no running record (any more) has
\* exactly one /ready entry: after an abandonment the collectors leave the task
\* either finished or re-enqueued exactly once.
C6_FinishedOrRequeuedOnce ==
    \A jt \in ControlTasks :
        (/\ ~Exists(nodes, RunningPath(jt[2]))
         /\ TaskValue(jt[1], jt[2], CONTROL_TASK_FINISHED) = None)
        => Cardinality(ReadyEntries(jt[2])) = 1

\* The half of C6 that holds: never more than one /ready entry for a task.
C6_AtMostOneEntry ==
    \A t \in TaskIds : Cardinality(ReadyEntries(t)) <= 1

\* The collectors inside _remove_control for job j.
Reapers(j) == {c \in Collectors : cpc[c] = "remove_control" /\ ccur[c] = j}

\* C7: at most one collector at a time is in _remove_control for a job, and it
\* is the one that created /control/jobs/<job>/lock.
C7_OneReaper ==
    \A j \in Jobs :
        /\ Cardinality(Reapers(j)) <= 1
        /\ \A c \in Reapers(j) :
              /\ Exists(nodes, join(JobPath(j), <<CONTROL_LOCK>>))
              /\ nodes[join(JobPath(j), <<CONTROL_LOCK>>)].owner = c

\* Two collectors are at the same finished job: one holds its lock and is in
\* _remove_control, the other is about to try the lock.
C7_Witness ==
    \E c1, c2 \in Collectors :
        /\ c1 # c2
        /\ cpc[c1] = "remove_control"
        /\ cpc[c2] = "joblock"
        /\ ccur[c1] = ccur[c2]

AllTasksDone(j) ==
    \A t \in GetChildren(nodes, TasksPath(j)) :
        /\ TaskValue(j, t, CONTROL_TASK_FINISHED) # None
        /\ ReadyEntries(t) = {}
        /\ ~Exists(nodes, RunningPath(t))

\* C9: the control sweep goes for a job's lock and into _remove_control, where
\* the subtree is deleted, only with every task of the job finished.
C9_ReapOnlyFinished ==
    \A c \in Collectors :
        cpc[c] \in {"joblock", "remove_control"} => AllTasksDone(ccur[c])

\* A collector is in _remove_control for a job that has a task.
C9_Witness ==
    \E c \in Collectors :
        /\ cpc[c] = "remove_control"
        /\ GetChildren(nodes, TasksPath(ccur[c])) # {}

\* C10: a job whose tasks are all finished, or that is splitted without tasks,
\* is eventually gone from /control/jobs.
C10_ReapLive ==
    \A j \in Jobs : (IsFinished(nodes, j) = "yes") ~> ~Exists(nodes, JobPath(j))

(* -------------------- an orphan under /running ------------------------- *)
\* The payload of a running record whose job has no control record.
OrphanData == [job_id |-> "j0", handler |-> "h", state |-> 0]

\* /running/<t> is there for every task id and nothing of the task is below
\* /control/jobs; the lock of the record is held by the worker that still runs
\* the task, or by nobody; the collectors start at any time.
OrphanInit ==
    \E holders \in [TaskIds -> Workers \cup {Persistent}] :
        /\ \A t1, t2 \in TaskIds :
              (t1 # t2 /\ holders[t1] = holders[t2]) => holders[t1] = Persistent
        /\ nodes = [p \in {<<"running">>, <<"control">>, <<"control", "jobs">>}
                          \cup {RunningPath(t) : t \in TaskIds}
                          \cup {RunningLockPath(t) : t \in {u \in TaskIds : holders[u] # Persistent}} |->
                      IF Len(p) = 2 /\ p[1] = "running" THEN Node(OrphanData, Persistent)
                      ELSE IF Len(p) = 3 /\ p[1] = "running" THEN Node(None, holders[p[2]])
                      ELSE Node(None, Persistent)]
        /\ wpc = [w \in Workers |-> IF \E t \in TaskIds : holders[t] = w
                                    THEN "running" ELSE "idle"]
        /\ wentry = [w \in Workers |->
                       IF \E t \in TaskIds : holders[t] = w
                       THEN [pri |-> DefaultPriority, seq |-> 0,
                             data |-> ReadyData(OrphanData.job_id,
                                                CHOOSE t \in TaskIds : holders[t] = w,
                                                OrphanData.handler, OrphanData.state)]
                       ELSE NoEntry]
        /\ ready = {}
        /\ taken = {}
        /\ seq = 1
        /\ input = {}
        /\ now \in 1..MaxTime
        /\ issued = TaskIds
        /\ deaths = 0
        /\ cpc = [c \in Collectors |-> "sleep"]
        /\ ctodo = [c \in Collectors |-> {}]
        /\ ccur = [c \in Collectors |-> ""]
        /\ cjob = [c \in Collectors |-> ""]
        /\ cgarbage = [c \in Collectors |-> FALSE]
        /\ LibInit
        /\ NoRules
        /\ max_fails = None
        /\ RunIdle

\* The collectors and the end of the workers' sessions: with no job the rest
\* of run() has nothing to act on.
OrphanNext ==
    \/ Tick
    \/ \E w \in Workers : WDie(w)
    \/ \E c \in Collectors : PollRunning(c)
    \/ \E c \in Collectors, t \in TaskIds : PollRunningTask(c, t)
    \/ \E c \in Collectors : RunningLock(c)
    \/ \E c \in Collectors : RemoveRunning(c)
    \/ \E c \in Collectors : PollControl(c)
    \/ \E c \in Collectors : Sleep(c)

OrphanSpec ==
    /\ OrphanInit /\ [][OrphanNext]_vars
    /\ \A c \in Collectors : WF_vars(CollectorStep(c))

\* Task t is an orphan: a running record without a control record.
Orphan(t) ==
    /\ Exists(nodes, RunningPath(t))
    /\ ~Exists(nodes, TaskPath(RunningJob(t), t))

\* C11: of two collectors at an orphan /running/<t> only the one whose
\* try_acquire created the lock goes on to _remove_running, and it is the one
\* whose transaction deletes the record and the lock; the other goes back to
\* its loop, no collector ends in an error, and an orphan that no worker holds
\* is eventually gone.
C11_OrphanSingleWinner ==
    /\ [][\A c \in Collectors, t \in TaskIds :
            /\ (cpc[c] = "lock" /\ ccur[c] = t /\ cpc'[c] # "lock")
               => IF Exists(nodes, RunningLockPath(t)) \/ ~Exists(nodes, RunningPath(t))
                  THEN cpc'[c] = "running" /\ nodes' = nodes
                  ELSE /\ cpc'[c] = "remove"
                       /\ Exists(nodes', RunningLockPath(t))
                       /\ nodes'[RunningLockPath(t)].owner = c
            /\ (Orphan(t) /\ ~Exists(nodes', RunningPath(t)))
               => /\ Cardinality({d \in Collectors : cpc[d] = "remove" /\ ccur[d] = t}) = 1
                  /\ \A d \in Collectors :
                        (cpc[d] = "remove" /\ ccur[d] = t)
                        => /\ nodes[RunningLockPath(t)].owner = d
                           /\ cpc'[d] = "running"
                  /\ ~Exists(nodes', RunningLockPath(t))
            /\ cpc'[c] # "crashed"]_vars
    /\ \A t \in TaskIds :
          (Orphan(t) /\ ~Exists(nodes, RunningLockPath(t))) ~> ~Exists(nodes, RunningPath(t))

\* One collector holds the orphan's lock and is about to delete the record,
\* the other is about to try the same lock.
C11_Witness ==
    \E c1, c2 \in Collectors, t \in TaskIds :
        /\ c1 # c2
        /\ Orphan(t)
        /\ cpc[c1] = "remove" /\ ccur[c1] = t
        /\ cpc[c2] = "lock" /\ ccur[c2] = t

(* ----------------------- SingleLock on its own ------------------------- *)
\* self._path of the SingleLock the clients share.
SINGLE_LOCK_PATH == <<"control", CONTROL_LOCK>>

notlock == <<appvars, ctrvars, qvars, rulevars, runvars>>

\* exists() without the watch.
SetWatchNone(w, k) == w

\* client.exists(self._path, watch=watcher): the watch is set with the read.
SetWatch(w, k) == w \cup {k}

\* A change of the lock node (created or deleted) calls every watcher set on
\* it, once; a watcher sets the Event of its client.
FireWatches(before, after) ==
    IF Exists(before, SINGLE_LOCK_PATH) # Exists(after, SINGLE_LOCK_PATH)
    THEN /\ levent' = levent \cup lwatch
         /\ lwatch' = {}
    ELSE UNCHANGED <<lwatch, levent>>

\* try_acquire() called on its own: True or False.
LTryAcquire(k) ==
    /\ lpc[k] = "idle"
    /\ LET r == TryAcquire(Store, SINGLE_LOCK_PATH, k)
       IN /\ SetStore(r.s)
          /\ lpc' = [lpc EXCEPT ![k] = IF r.ok THEN "held" ELSE "failed"]
          /\ FireWatches(nodes, r.s.nodes)
    /\ UNCHANGED notlock

\* The caller of a try_acquire() that returned False goes on.
LFailed(k) ==
    /\ lpc[k] = "failed"
    /\ lpc' = [lpc EXCEPT ![k] = "idle"]
    /\ UNCHANGED <<nodes, lwatch, levent, notlock>>

\* acquire() is called.
LAcquire(k) ==
    /\ lpc[k] = "idle"
    /\ lpc' = [lpc EXCEPT ![k] = "try"]
    /\ UNCHANGED <<nodes, lwatch, levent, notlock>>

\* while not self.try_acquire(fatal)
LAcquireTry(k) ==
    /\ lpc[k] = "try"
    /\ LET r == TryAcquire(Store, SINGLE_LOCK_PATH, k)
       IN /\ SetStore(r.s)
          /\ lpc' = [lpc EXCEPT ![k] = IF r.ok THEN "held" ELSE "exists"]
          /\ FireWatches(nodes, r.s.nodes)
    /\ UNCHANGED notlock

\* wait = threading.Event(); if client.exists(path, watch=watcher) is not None
LExists(k) ==
    /\ lpc[k] = "exists"
    /\ lwatch' = SetWatch(lwatch, k)
    /\ levent' = levent \ {k}
    /\ lpc' = [lpc EXCEPT ![k] = IF Exists(nodes, SINGLE_LOCK_PATH) THEN "wait" ELSE "try"]
    /\ UNCHANGED <<nodes, notlock>>

\* wait.wait() returns once the watcher has set the Event.
LWait(k) ==
    /\ lpc[k] = "wait"
    /\ k \in levent
    /\ lpc' = [lpc EXCEPT ![k] = "try"]
    /\ UNCHANGED <<nodes, lwatch, levent, notlock>>

\* release(): delete, a NoNodeError is passed over.
LRelease(k) ==
    /\ lpc[k] = "held"
    /\ LET r == Commit(Store, <<OpDelete(SINGLE_LOCK_PATH)>>)
       IN /\ SetStore(r.s)
          /\ FireWatches(nodes, r.s.nodes)
    /\ lpc' = [lpc EXCEPT ![k] = "idle"]
    /\ UNCHANGED notlock

\* The session of a client ends: its ephemeral node goes, and so do its watches.
LDie(k) ==
    /\ lpc[k] # "dead"
    /\ LET r == DropSession(Store, k)
       IN /\ SetStore(r)
          /\ IF Exists(nodes, SINGLE_LOCK_PATH) # Exists(r.nodes, SINGLE_LOCK_PATH)
             THEN /\ levent' = (levent \cup lwatch) \ {k}
                  /\ lwatch' = {}
             ELSE /\ levent' = levent \ {k}
                  /\ lwatch' = lwatch \ {k}
    /\ lpc' = [lpc EXCEPT ![k] = "dead"]
    /\ UNCHANGED notlock

LockNext ==
    \/ \E k \in Clients : LTryAcquire(k)
    \/ \E k \in Clients : LFailed(k)
    \/ \E k \in Clients : LAcquire(k)
    \/ \E k \in Clients : LAcquireTry(k)
    \/ \E k \in Clients : LExists(k)
    \/ \E k \in Clients : LWait(k)
    \/ \E k \in Clients : LRelease(k)
    \/ \E k \in Clients : LDie(k)

\* A thread inside acquire() keeps running.
AcquireStep(k) == LAcquireTry(k) \/ LExists(k) \/ LWait(k)

LockSpec ==
    /\ Init /\ [][LockNext]_vars
    /\ \A k \in Clients : WF_vars(AcquireStep(k))

Holders == {k \in Clients : lpc[k] = "held"}

\* C12: a try_acquire() returns True exactly when the lock node was absent, and
\* the node is then there with the caller as its ephemeral owner; one that
\* returns False changes nothing; at most one client holds the lock, and the
\* end of the holder's session removes the node.
C12_SingleLockExclusion ==
    /\ [][\A k \in Clients :
            /\ (\/ lpc[k] = "idle" /\ lpc'[k] \in {"held", "failed"}
                \/ lpc[k] = "try" /\ lpc'[k] \in {"held", "exists"})
               => /\ lpc'[k] = "held" <=> ~Exists(nodes, SINGLE_LOCK_PATH)
                  /\ lpc'[k] = "held" => /\ Exists(nodes', SINGLE_LOCK_PATH)
                                          /\ nodes'[SINGLE_LOCK_PATH].owner = k
                  /\ lpc'[k] # "held" => nodes' = nodes
            /\ (lpc[k] = "held" /\ lpc'[k] = "dead")
               => ~Exists(nodes', SINGLE_LOCK_PATH)]_vars
    /\ [](/\ Cardinality(Holders) <= 1
          /\ \A k \in Holders : /\ Exists(nodes, SINGLE_LOCK_PATH)
                                /\ nodes[SINGLE_LOCK_PATH].owner = k)

\* A client holds the lock after the session of an earlier holder has ended,
\* while a third has just been refused.
C12_Witness ==
    \E k1, k2, k3 \in Clients :
        /\ lpc[k1] = "dead"
        /\ lpc[k2] = "held"
        /\ lpc[k3] = "failed"

\* The client is inside acquire() and does not hold the lock.
InAcquire(k) == lpc[k] \in {"try", "exists", "wait"}

\* C13: a client blocked in wait.wait() whose Event is not set has the lock
\* node in place and its watch on it; and whenever the lock node is absent, a
\* client inside acquire() comes to hold the lock unless the node is created
\* again first (or its own session ends).
C13_NoLostWakeup ==
    /\ [](\A k \in Clients :
            (lpc[k] = "wait" /\ k \notin levent)
            => Exists(nodes, SINGLE_LOCK_PATH) /\ k \in lwatch)
    /\ \A k \in Clients :
          (InAcquire(k) /\ ~Exists(nodes, SINGLE_LOCK_PATH))
          ~> (lpc[k] \in {"held", "dead"} \/ Exists(nodes, SINGLE_LOCK_PATH))

\* The lock node was deleted while a client was blocked in wait.wait(): the
\* watcher has set the client's Event and the node is absent.
C13_Witness ==
    \E k \in Clients :
        /\ lpc[k] = "wait"
        /\ k \in levent
        /\ ~Exists(nodes, SINGLE_LOCK_PATH)

(* ------------------------- IncrementalCounter -------------------------- *)
\* The increments started in a run.
MaxIncrements == 3

\* What a node created without data holds: pickle.loads of it raises EOFError.
NoData == -2

JOBS_COUNTER_PATH == <<"core", "jobs_counter">>
CounterLockPath == join(JOBS_COUNTER_PATH, <<CONTROL_LOCK>>)

notctr == <<appvars, lockvars, qvars, rulevars, runvars>>

\* The integer in the counter node, 0 for a node that is absent or empty.
CounterValue(n) ==
    IF Exists(n, JOBS_COUNTER_PATH) /\ n[JOBS_COUNTER_PATH].data >= 0
    THEN n[JOBS_COUNTER_PATH].data ELSE 0

\* ensure_path of kazoo's Lock: the path and its ancestors, created without
\* data where they are missing.
RECURSIVE EnsurePath(_, _)
EnsurePath(s, path) ==
    IF path = <<>> \/ Exists(s.nodes, path) THEN s
    ELSE CHOOSE out \in {ApplyOp(up, OpCreate(path, NoData, Persistent)).s :
                          up \in {EnsurePath(s, Parent(path))}} : TRUE

\* A lock that everybody gets.
LockFreeAlways(n) == TRUE

\* kazoo's Lock at <path>/lock is free: no contender node below it.
LockFree(n) == GetChildren(n, CounterLockPath) = {}

\* A read that takes the counter for new.
IncrementReadZero(n) == 0

\* value = pget(path), 0 on NoNodeError and on EOFError.
IncrementRead(n) ==
    IF ~Exists(n, JOBS_COUNTER_PATH) THEN 0
    ELSE IF n[JOBS_COUNTER_PATH].data = NoData THEN 0
    ELSE n[JOBS_COUNTER_PATH].data

\* The store before any increment: the counter node is absent, or empty as
\* zoo.init() creates it, or holds an integer.
CounterInit ==
    /\ \E present \in BOOLEAN, v \in {NoData, 0, 1} :
          nodes = [p \in {<<"running">>, <<"control">>, <<"control", "jobs">>}
                         \cup (IF present THEN {<<"core">>, JOBS_COUNTER_PATH} ELSE {}) |->
                     IF p = JOBS_COUNTER_PATH THEN Node(v, Persistent)
                     ELSE Node(None, Persistent)]
    /\ IdleInit

InFlight == {k \in Clients : ipc[k] \notin {"idle", "dead", "error"}}

\* increment() is called.
IEnter(k) ==
    /\ ipc[k] = "idle"
    /\ Len(idone) + Cardinality(InFlight) < MaxIncrements
    /\ ipc' = [ipc EXCEPT ![k] = "lock"]
    /\ UNCHANGED <<nodes, ival, idone, iprior, notctr>>

\* with self._client.Lock(join(self._path, LOCK)): blocks while another
\* client holds the lock.
ILock(k) ==
    /\ ipc[k] = "lock"
    /\ LockFree(nodes)
    /\ LET ensured == EnsurePath(Store, CounterLockPath)
           r == ApplyOp(ensured, OpCreate(join(CounterLockPath, <<k>>), None, k))
       IN SetStore(r.s)
    /\ ipc' = [ipc EXCEPT ![k] = "get"]
    /\ UNCHANGED <<ival, idone, iprior, notctr>>

\* The try block.
IGet(k) ==
    /\ ipc[k] = "get"
    /\ ival' = [ival EXCEPT ![k] = IncrementRead(nodes)]
    /\ ipc' = [ipc EXCEPT ![k] = "set"]
    /\ UNCHANGED <<nodes, idone, iprior, notctr>>

\* pset(self._path, value + 1); a NoNodeError leaves through the with block.
ISet(k) ==
    /\ ipc[k] = "set"
    /\ LET r == ApplyOp(Store, OpSet(JOBS_COUNTER_PATH, ival[k] + 1))
       IN IF r.res = "ok"
          THEN /\ SetStore(r.s)
               /\ ipc' = [ipc EXCEPT ![k] = "unlock"]
          ELSE /\ SetStore(Commit(Store, <<OpDelete(join(CounterLockPath, <<k>>))>>).s)
               /\ ipc' = [ipc EXCEPT ![k] = "error"]
    /\ UNCHANGED <<ival, idone, iprior, notctr>>

\* The with block is left and the value returned.
IReturn(k) ==
    /\ ipc[k] = "unlock"
    /\ SetStore(Commit(Store, <<OpDelete(join(CounterLockPath, <<k>>))>>).s)
    /\ idone' = Append(idone, ival[k])
    /\ ipc' = [ipc EXCEPT ![k] = "idle"]
    /\ UNCHANGED <<ival, iprior, notctr>>

\* The session of a client ends.
IDie(k) ==
    /\ ipc[k] # "dead"
    /\ SetStore(DropSession(Store, k))
    /\ ipc' = [ipc EXCEPT ![k] = "dead"]
    /\ UNCHANGED <<ival, idone, iprior, notctr>>

CounterNext ==
    \/ \E k \in Clients : IEnter(k)
    \/ \E k \in Clients : ILock(k)
    \/ \E k \in Clients : IGet(k)
    \/ \E k \in Clients : ISet(k)
    \/ \E k \in Clients : IReturn(k)
    \/ \E k \in Clients : IDie(k)

CounterSpec == CounterInit /\ [][CounterNext]_vars

\* C14: the increments completed so far returned pairwise distinct values;
\* the counter holds at least its first value plus their number, and exactly
\* that when no increment is under way; and no step makes the counter smaller.
C14_IncrementsSerialized ==
    /\ [](/\ \A i, j \in 1..Len(idone) : i # j => idone[i] # idone[j]
          /\ CounterValue(nodes) >= iprior + Len(idone)
          /\ (\A k \in Clients : ipc[k] = "idle")
             => CounterValue(nodes) = iprior + Len(idone))
    /\ [][CounterValue(nodes') >= CounterValue(nodes)]_vars

\* One client is between its read and its write while another waits for the
\* lock, after an increment has been completed.
C14_Witness ==
    \E k1, k2 \in Clients :
        /\ ipc[k1] = "set"
        /\ ipc[k2] = "lock"
        /\ Len(idone) >= 1

\* C15: the write of increment() finds the counter at the value v read (0 for
\* an absent or empty node) and leaves v + 1 in it, the call returns v with
\* v + 1 still in the counter, and no call ends in an error.
C15_IncrementValue ==
    /\ [][\A k \in Clients :
            /\ (ipc[k] = "set" /\ ipc'[k] \notin {"set", "dead"})
               => /\ ipc'[k] = "unlock"
                  /\ ival[k] = CounterValue(nodes)
                  /\ Exists(nodes', JOBS_COUNTER_PATH)
                  /\ nodes'[JOBS_COUNTER_PATH].data = ival[k] + 1
            /\ (ipc[k] = "unlock" /\ ipc'[k] = "idle")
               => /\ idone' = Append(idone, ival[k])
                  /\ nodes'[JOBS_COUNTER_PATH].data = ival[k] + 1]_vars
    /\ [](\A k \in Clients : ipc[k] # "error")

\* The counter node was absent (its parent was made by ensure_path): the
\* increment has read 0 and written 1.
C15_Witness ==
    \E k \in Clients :
        /\ ipc[k] = "unlock"
        /\ nodes[<<"core">>].data = NoData
        /\ ival[k] = 0
        /\ nodes[JOBS_COUNTER_PATH].data = 1

(* ----------------------- AbortableLockingQueue ------------------------- *)
\* The entries put in a run.
MaxPuts == 2

\* The priorities the producers pass to lq_put.
Priorities == {200, 1000}

notq == <<nodes, input, now, issued, wvars, cvars, lockvars, ctrvars, rulevars, runvars>>

\* available[0]: the smallest name among the entries without a lock.
FirstAvailable(r, t) ==
    LET avail == {e \in r : ~\E k \in t : k.seq = e.seq}
    IN IF avail = {} THEN NoEntry
       ELSE CHOOSE e \in avail : \A f \in avail : f = e \/ NameLess(e, f)

\* _take(id): the ephemeral lock under taken is created unless it is there.
\* If the entry is gone by then nothing is returned, and the lock the call
\* has just created is deleted again or left behind, depending on the
\* release of the library: kept says which.
Take(s, e, k, kept) ==
    IF \E l \in s.taken : l.seq = e.seq THEN [got |-> FALSE, changed |-> FALSE, s |-> s]
    ELSE IF e \notin s.ready
    THEN [got |-> FALSE, changed |-> TRUE,
          s |-> IF kept THEN [s EXCEPT !.taken = @ \cup {[seq |-> e.seq, owner |-> k]}]
                ELSE s]
    ELSE [got |-> TRUE, changed |-> TRUE,
          s |-> [s EXCEPT !.taken = @ \cup {[seq |-> e.seq, owner |-> k]}]]

\* A check_for_updates that takes every _take for a success.
ClaimedAlways(r) == TRUE

\* if not ret is None: the _take has locked the entry.
Claimed(r) == r.got

\* The child watches fire: a callback is queued for every watcher.
Woken == [k \in Consumers |-> qev[k] \/ k \in qwatch]

\* A producer's transaction with lq_put.
QPut(pri) ==
    /\ seq < MaxPuts
    /\ SetStore(Commit(Store, <<OpCreateSeq(pri, [NoEntry.data EXCEPT !.state = seq + 1])>>).s)
    /\ qev' = Woken
    /\ qwatch' = {}
    /\ UNCHANGED <<qpc, qabort, qflag, qvalue, qproc, qcand, qcb, qasked, qret>>
    /\ UNCHANGED <<input, now, issued, wvars, cvars, lockvars, ctrvars, rulevars, runvars>>

\* A get() that never finds a processing element.
HasProcessingElementNever(k) == FALSE

\* not self.processing_element is None
HasProcessingElement(k) == qproc[k] # NoEntry

\* A final block that does not wait for the lock.
WithLockNever(k) == TRUE

\* with lock: no check_for_updates of this call holds the lock.
WithLock(k) == ~qcb[k]

\* get() is called: _ensure_paths().
QGet(k) ==
    /\ qpc[k] = "idle"
    /\ qpc' = [qpc EXCEPT ![k] = "started"]
    /\ UNCHANGED <<ready, taken, seq, qabort, qflag, qvalue, qproc, qcand, qcb, qev, qwatch, qasked, qret, notq>>

\* get() with a processing element: return self.processing_element[1]
QAgain(k) ==
    /\ qpc[k] = "started"
    /\ HasProcessingElement(k)
    /\ qret' = [qret EXCEPT ![k] = qproc[k].data]
    /\ qasked' = [qasked EXCEPT ![k] = FALSE]
    /\ qpc' = [qpc EXCEPT ![k] = "idle"]
    /\ UNCHANGED <<ready, taken, seq, qabort, qflag, qvalue, qproc, qcand, qcb, qev, qwatch, notq>>

\* self._abort = False, and the locals of _inner_get.
QReset(k) ==
    /\ qpc[k] = "started"
    /\ ~HasProcessingElement(k)
    /\ qabort' = [qabort EXCEPT ![k] = FALSE]
    /\ qflag' = [qflag EXCEPT ![k] = FALSE]
    /\ qvalue' = [qvalue EXCEPT ![k] = NoEntry]
    /\ qpc' = [qpc EXCEPT ![k] = "check"]
    /\ UNCHANGED <<ready, taken, seq, qproc, qcand, qcb, qev, qwatch, qasked, qret, notq>>

\* check_for_updates(None), the reads: the children of entries and of taken,
\* each with the watch.
QCheck(k) ==
    /\ qpc[k] = "check"
    /\ qwatch' = qwatch \cup {k}
    /\ qcand' = [qcand EXCEPT ![k] = FirstAvailable(ready, taken)]
    /\ qpc' = [qpc EXCEPT ![k] = IF FirstAvailable(ready, taken) = NoEntry
                                  THEN "loop" ELSE "take"]
    /\ UNCHANGED <<ready, taken, seq, qabort, qflag, qvalue, qproc, qcb, qev, qasked, qret, notq>>

\* check_for_updates(None), the _take of available[0].
QTake(k) ==
    /\ qpc[k] = "take"
    /\ \E kept \in BOOLEAN :
         LET r == Take(Store, qcand[k], k, kept)
         IN /\ SetStore(r.s)
            /\ qvalue' = [qvalue EXCEPT ![k] = IF Claimed(r) THEN qcand[k] ELSE @]
            /\ qflag' = [qflag EXCEPT ![k] = Claimed(r) \/ @]
            /\ qev' = IF r.changed THEN Woken ELSE qev
            /\ qwatch' = IF r.changed THEN {} ELSE qwatch
    /\ qcand' = [qcand EXCEPT ![k] = NoEntry]
    /\ qpc' = [qpc EXCEPT ![k] = "loop"]
    /\ UNCHANGED <<qabort, qproc, qcb, qasked, qret>>
    /\ UNCHANGED <<input, now, issued, wvars, cvars, lockvars, ctrvars, rulevars, runvars>>

\* while not self._abort: flag.wait(poll_every); a set flag sets _abort.
QLoop(k) ==
    /\ qpc[k] = "loop"
    /\ qabort[k] \/ qflag[k]
    /\ qabort' = [qabort EXCEPT ![k] = TRUE]
    /\ qpc' = [qpc EXCEPT ![k] = "exit"]
    /\ UNCHANGED <<ready, taken, seq, qflag, qvalue, qproc, qcand, qcb, qev, qwatch, qasked, qret, notq>>

\* with lock: canceled = True; the claimed entry becomes the processing
\* element; return.  The watchers of this call do nothing from now on.
QReturn(k) ==
    /\ qpc[k] = "exit"
    /\ WithLock(k)
    /\ qproc' = [qproc EXCEPT ![k] = qvalue[k]]
    /\ qret' = [qret EXCEPT ![k] = qvalue[k].data]
    /\ qvalue' = [qvalue EXCEPT ![k] = NoEntry]
    /\ qflag' = [qflag EXCEPT ![k] = FALSE]
    /\ qev' = [qev EXCEPT ![k] = FALSE]
    /\ qwatch' = qwatch \ {k}
    /\ qasked' = [qasked EXCEPT ![k] = FALSE]
    /\ qpc' = [qpc EXCEPT ![k] = "idle"]
    /\ UNCHANGED <<ready, taken, seq, qabort, qcand, qcb, notq>>

\* check_for_updates(event) called for a watch: nothing when the flag is set,
\* else the reads, each with the watch.
QCallback(k) ==
    /\ qev[k]
    /\ ~qcb[k]
    /\ qpc[k] \in {"loop", "exit"}
    /\ qev' = [qev EXCEPT ![k] = FALSE]
    /\ IF qflag[k]
       THEN UNCHANGED <<qwatch, qcand, qcb>>
       ELSE /\ qwatch' = qwatch \cup {k}
            /\ qcand' = [qcand EXCEPT ![k] = FirstAvailable(ready, taken)]
            /\ qcb' = [qcb EXCEPT ![k] = FirstAvailable(ready, taken) # NoEntry]
    /\ UNCHANGED <<ready, taken, seq, qpc, qabort, qflag, qvalue, qproc, qasked, qret, notq>>

\* The _take of a watch callback.
QCallbackTake(k) ==
    /\ qcb[k]
    /\ \E kept \in BOOLEAN :
         LET r == Take(Store, qcand[k], k, kept)
         IN /\ SetStore(r.s)
            /\ qvalue' = [qvalue EXCEPT ![k] = IF Claimed(r) THEN qcand[k] ELSE @]
            /\ qflag' = [qflag EXCEPT ![k] = Claimed(r) \/ @]
            /\ qev' = IF r.changed THEN Woken ELSE qev
            /\ qwatch' = IF r.changed THEN {} ELSE qwatch
    /\ qcand' = [qcand EXCEPT ![k] = NoEntry]
    /\ qcb' = [qcb EXCEPT ![k] = FALSE]
    /\ UNCHANGED <<qpc, qabort, qproc, qasked, qret>>
    /\ UNCHANGED <<input, now, issued, wvars, cvars, lockvars, ctrvars, rulevars, runvars>>

\* abort_get(), from another thread at any moment.
QAbort(k) ==
    /\ qpc[k] # "dead"
    /\ ~qabort[k] \/ (~qasked[k] /\ qpc[k] # "idle")
    /\ qabort' = [qabort EXCEPT ![k] = TRUE]
    /\ qasked' = [qasked EXCEPT ![k] = qpc[k] # "idle"]
    /\ UNCHANGED <<ready, taken, seq, qpc, qflag, qvalue, qproc, qcand, qcb, qev, qwatch, qret, notq>>

\* consume(): the entry and its lock are deleted in one transaction.
QConsume(k) ==
    /\ qpc[k] = "idle"
    /\ qproc[k] # NoEntry
    /\ SetStore(Commit(Store, <<OpConsume(qproc[k])>>).s)
    /\ qproc' = [qproc EXCEPT ![k] = NoEntry]
    /\ qev' = Woken
    /\ qwatch' = {}
    /\ UNCHANGED <<qpc, qabort, qflag, qvalue, qcand, qcb, qasked, qret>>
    /\ UNCHANGED <<input, now, issued, wvars, cvars, lockvars, ctrvars, rulevars, runvars>>

\* The session of a consumer ends: its locks under taken go.
QDie(k) ==
    /\ qpc[k] # "dead"
    /\ SetStore(DropSession(Store, k))
    /\ qpc' = [qpc EXCEPT ![k] = "dead"]
    /\ qproc' = [qproc EXCEPT ![k] = NoEntry]
    /\ qvalue' = [qvalue EXCEPT ![k] = NoEntry]
    /\ qcand' = [qcand EXCEPT ![k] = NoEntry]
    /\ qcb' = [qcb EXCEPT ![k] = FALSE]
    /\ qflag' = [qflag EXCEPT ![k] = FALSE]
    /\ qabort' = [qabort EXCEPT ![k] = FALSE]
    /\ qasked' = [qasked EXCEPT ![k] = FALSE]
    /\ qret' = [qret EXCEPT ![k] = NoEntry.data]
    /\ qev' = [j \in Consumers |->
                 IF j = k THEN FALSE
                 ELSE qev[j] \/ (j \in qwatch /\ \E l \in taken : l.owner = k)]
    /\ qwatch' = IF \E l \in taken : l.owner = k THEN {} ELSE qwatch \ {k}
    /\ UNCHANGED <<input, now, issued, wvars, cvars, lockvars, ctrvars, rulevars, runvars>>

QueueNext ==
    \/ \E pri \in Priorities : QPut(pri)
    \/ \E k \in Consumers : QGet(k)
    \/ \E k \in Consumers : QAgain(k)
    \/ \E k \in Consumers : QReset(k)
    \/ \E k \in Consumers : QCheck(k)
    \/ \E k \in Consumers : QTake(k)
    \/ \E k \in Consumers : QLoop(k)
    \/ \E k \in Consumers : QReturn(k)
    \/ \E k \in Consumers : QCallback(k)
    \/ \E k \in Consumers : QCallbackTake(k)
    \/ \E k \in Consumers : QAbort(k)
    \/ \E k \in Consumers : QConsume(k)
    \/ \E k \in Consumers : QDie(k)

\* The thread inside get() and the thread that runs the watch callbacks keep
\* running.
ConsumerStep(k) ==
    \/ QAgain(k) \/ QReset(k) \/ QCheck(k) \/ QTake(k) \/ QLoop(k) \/ QReturn(k)
    \/ QCallback(k) \/ QCallbackTake(k)

QueueSpec ==
    /\ Init /\ [][QueueNext]_vars
    /\ \A k \in Consumers : WF_vars(ConsumerStep(k))

\* A check_for_updates of consumer k picks entry c in this step.
Picks(k, c) == qcand'[k] = c /\ c # NoEntry /\ qcand[k] # c

\* C16: the entry a get() goes for is first in the order of delivery: no
\* entry that nobody holds has a lower priority, or the same priority and an
\* earlier put.
C16_DeliveryOrder ==
    [][\A k \in Consumers, c \in ready :
         Picks(k, c) =>
            \A f \in Available :
               ~(f.pri < c.pri \/ (f.pri = c.pri /\ f.seq < c.seq))]_vars

\* What holds of the order: the entry gone for has the smallest name, and
\* among entries of one priority the earliest put.
C16_SmallestName ==
    [][\A k \in Consumers, c \in ready :
         Picks(k, c) =>
            \A f \in Available :
               /\ f = c \/ NameLess(c, f)
               /\ ~(f.pri = c.pri /\ f.seq < c.seq)]_vars

\* C17: an abort_get() called while a get() is in progress makes that get()
\* return.
C17_AbortReturns ==
    \A k \in Consumers : qasked[k] ~> (qpc[k] \in {"idle", "dead"})

\* What holds of the abort: a get() leaves its loop only with an entry
\* claimed or with _abort set, and returns an entry only if it claimed one.
C17_ReturnsOnlyIfAsked ==
    [][\A k \in Consumers :
         /\ (qpc[k] = "loop" /\ qpc'[k] = "exit") => (qflag[k] \/ qabort[k])
         /\ (qpc[k] = "exit" /\ qpc'[k] = "idle")
            => (qproc'[k] # NoEntry <=> qflag[k])]_vars

\* The entries a consumer holds: claimed in value[] or as processing element.
Held(k) == {qvalue[k], qproc[k]} \ {NoEntry}

\* C18: no entry is held by two consumers, every held entry has its lock
\* under taken owned by the holder, and the end of a holder's session leaves
\* its entries without a lock, to be claimed again.
C18_OneConsumerPerEntry ==
    /\ [](\A k1, k2 \in Consumers :
            /\ k1 # k2 => Held(k1) \cap Held(k2) = {}
            /\ \A e \in Held(k1) : [seq |-> e.seq, owner |-> k1] \in taken)
    /\ [][\A k \in Consumers :
            (qpc[k] # "dead" /\ qpc'[k] = "dead")
            => \A e \in Held(k) : ~\E l \in taken' : l.seq = e.seq]_vars

\* Both consumers have read the same entry as available[0] and are about to
\* _take it.
C18_Witness ==
    \E k1, k2 \in Consumers :
        /\ k1 # k2
        /\ qcand[k1] # NoEntry
        /\ qcand[k1] = qcand[k2]

(* -------------------------------- rules -------------------------------- *)
EXTRA_HANDLER == "handler"
EXTRA_JOB_ID == "job_id"

\* The values of attributes and operands, and the keys filtered on.
Values == {"a", "b"}
EventKeys == {"host", "service"}
ExtraKeys == {"user"}
HandlerTypes == {"T1", "T2"}

\* EqComparator(operand), and a comparator without a compare of its own.
EqComparator(operand) == [class |-> "EqComparator", operand |-> operand]
AbstractComparator == [class |-> "AbstractComparator", operand |-> "a"]

\* comparator.compare(value): the bool, or the exception raised.
ComparatorCompare(comparator, value) ==
    IF comparator.class = "EqComparator"
    THEN IF value = comparator.operand THEN "True" ELSE "False"
    ELSE "NotImplementedError"

\* _compare: an exception of compare becomes ComparsionError.
Compare(comparator, value) ==
    LET r == ComparatorCompare(comparator, value)
    IN IF r \in {"True", "False"} THEN r ELSE "ComparsionError"

\* A _check_match that lets the error through.
ExceptNothing(err) == err

\* except ComparsionError: logged, return False.
ExceptComparsionError(err) == "False"

\* _check_match: the filters in the order of filters.items(); "True", "False",
\* or the exception that leaves it.
RECURSIVE CheckMatch(_, _)
CheckMatch(filters, event) ==
    IF filters = <<>> THEN "True"
    ELSE LET key == Head(filters).key
             comparator == Head(filters).comparator
         IN IF key \notin DOMAIN event THEN "False"
            ELSE LET r == Compare(comparator, event[key])
                 IN IF r = "ComparsionError" THEN ExceptComparsionError(r)
                    ELSE IF r = "False" THEN "False"
                    ELSE CheckMatch(Tail(filters), event)

\* A handler nobody has disabled.
DisabledNever(handler) == FALSE

\* hasattr(handler, _DISABLE_HANDLER)
Disabled(handler) == handler.disabled

\* The filter dicts a handler can carry: one comparator per key, in either
\* order of the keys.
Filters(keys) ==
    {[key |-> k, comparator |-> c] :
        k \in keys, c \in {EqComparator("a"), AbstractComparator}}
FilterDicts(keys) ==
    {<<>>} \cup {<<f>> : f \in Filters(keys)}
           \cup {p \in Filters(keys) \X Filters(keys) : p[1].key # p[2].key}

\* The handlers as the decorators leave them.
Handlers(name) ==
    {[name |-> name, disabled |-> d, event_filters |-> ef, extra_filters |-> xf] :
        d \in BOOLEAN, ef \in FilterDicts(EventKeys), xf \in FilterDicts(ExtraKeys)}

\* The events: attributes present or not, and the extra attributes with the
\* handler type and the job id.
Events ==
    {[event |-> e, extra |-> x] :
        e \in UNION {[D -> Values] : D \in SUBSET EventKeys},
        x \in UNION {{[k \in {EXTRA_HANDLER, EXTRA_JOB_ID} \cup D |->
                          IF k = EXTRA_HANDLER THEN t
                          ELSE IF k = EXTRA_JOB_ID THEN "j1" ELSE "a"] :
                        t \in HandlerTypes} : D \in SUBSET ExtraKeys}}

\* An event and a registry with two handlers under one handler type.
RulesInit ==
    /\ nodes = (<<"running">> :> Node(None, Persistent))
    /\ AppInit
    /\ LibInit
    /\ max_fails = None
    /\ RunIdle
    /\ event_root \in Events
    /\ handlers \in {"T1" :> {h1, h2} : h1 \in Handlers("h1"), h2 \in Handlers("h2")}
    /\ RulesIdle

notrules == <<nodes, appvars, lockvars, ctrvars, qvars, runvars, event_root, handlers>>

\* handlers.get(handler_type, set())
Registered ==
    IF event_root.extra[EXTRA_HANDLER] \in DOMAIN handlers
    THEN handlers[event_root.extra[EXTRA_HANDLER]] ELSE {}

\* get_handlers: handler_type and job_id are read, selected_set = set().
GStart ==
    /\ gpc = "idle"
    /\ gtodo' = Registered
    /\ selected_set' = {}
    /\ gpc' = "loop"
    /\ UNCHANGED <<gresult, notrules>>

\* One round of the loop over the handlers of the type.
GHandler(handler) ==
    /\ gpc = "loop"
    /\ handler \in gtodo
    /\ gtodo' = gtodo \ {handler}
    /\ LET event_filters == handler.event_filters
           extra_filters == handler.extra_filters
           m1 == CheckMatch(event_filters, event_root.event)
           m2 == CheckMatch(extra_filters, event_root.extra)
       IN IF Disabled(handler)
          THEN UNCHANGED <<selected_set, gpc>>
          ELSE IF Len(event_filters) + Len(extra_filters) = 0
          THEN /\ selected_set' = selected_set \cup {handler}
               /\ UNCHANGED gpc
          ELSE IF m1 = "ComparsionError" \/ (m1 = "True" /\ m2 = "ComparsionError")
          THEN /\ gpc' = "raised"
               /\ UNCHANGED selected_set
          ELSE /\ selected_set' = IF m1 = "True" /\ m2 = "True"
                                  THEN selected_set \cup {handler}
                                  ELSE selected_set
               /\ UNCHANGED gpc
    /\ UNCHANGED <<gresult, notrules>>

\* return selected_set
GReturn ==
    /\ gpc = "loop"
    /\ gtodo = {}
    /\ gresult' = selected_set
    /\ gpc' = "done"
    /\ UNCHANGED <<gtodo, selected_set, notrules>>

RulesNext ==
    \/ GStart
    \/ \E handler \in Handlers("h1") \cup Handlers("h2") : GHandler(handler)
    \/ GReturn

RulesSpec == RulesInit /\ [][RulesNext]_vars

\* Every filter of the dict has its key in the attributes and a comparator
\* that is true of the value.
Passes(filters, attrs) ==
    \A i \in 1..Len(filters) :
        /\ filters[i].key \in DOMAIN attrs
        /\ ComparatorCompare(filters[i].comparator, attrs[filters[i].key]) = "True"

\* C19: get_handlers returns exactly the handlers of the event's
\* handler_type that are not disabled and whose event filters and extra
\* filters all pass; a handler without filters is in unless disabled, a
\* filter on a missing key keeps the handler out, and a handler_type
\* nobody registered for gives the empty set.
C19_ExactlyTheMatching ==
    gpc = "done" =>
       /\ gresult = {h \in Registered :
                       /\ ~h.disabled
                       /\ Passes(h.event_filters, event_root.event)
                       /\ Passes(h.extra_filters, event_root.extra)}
       /\ \A h \in Registered :
             /\ (~h.disabled /\ h.event_filters = <<>> /\ h.extra_filters = <<>>)
                => h \in gresult
             /\ (\E i \in 1..Len(h.event_filters) :
                    h.event_filters[i].key \notin DOMAIN event_root.event)
                => h \notin gresult
             /\ (\E i \in 1..Len(h.extra_filters) :
                    h.extra_filters[i].key \notin DOMAIN event_root.extra)
                => h \notin gresult
       /\ event_root.extra[EXTRA_HANDLER] \notin DOMAIN handlers => gresult = {}

\* The call has returned one handler that passed filters of both kinds and
\* left out another, not disabled, for its second filter, on a missing key.
C19_Witness ==
    /\ gpc = "done"
    /\ \E h, g \in Registered :
          /\ h \in gresult
          /\ Len(h.event_filters) = 1
          /\ Len(h.extra_filters) = 1
          /\ g \notin gresult
          /\ ~g.disabled
          /\ Len(g.event_filters) = 2
          /\ Passes(<<g.event_filters[1]>>, event_root.event)
          /\ g.event_filters[2].key \notin DOMAIN event_root.event

\* The comparator of some filter of the dict raises on the value it is given.
Raises(filters, attrs) ==
    \E i \in 1..Len(filters) :
        /\ filters[i].key \in DOMAIN attrs
        /\ ComparatorCompare(filters[i].comparator, attrs[filters[i].key])
              \notin {"True", "False"}

\* C20: no exception of a comparator leaves get_handlers; the handler whose
\* comparator raises is not returned, and a handler of the same type none of
\* whose comparators raises is returned or not by its own filters.
C20_ComparatorErrorContained ==
    /\ gpc # "raised"
    /\ gpc = "done" =>
          \A h \in Registered :
             IF Raises(h.event_filters, event_root.event)
                \/ Raises(h.extra_filters, event_root.extra)
             THEN h \notin gresult
             ELSE h \in gresult <=>
                     /\ ~h.disabled
                     /\ Passes(h.event_filters, event_root.event)
                     /\ Passes(h.extra_filters, event_root.extra)

\* The call has returned with one handler out because the first comparator
\* it tried raised, and another handler in by its filters.
C20_Witness ==
    /\ gpc = "done"
    /\ \E h, g \in Registered :
          /\ ~h.disabled
          /\ h.event_filters # <<>>
          /\ Raises(<<Head(h.event_filters)>>, event_root.event)
          /\ h \notin gresult
          /\ g \in gresult
          /\ g.event_filters # <<>>

(* --------------------------- Application.run --------------------------- *)
\* The calls of process() in a run.
MaxPasses == 5

\* The values of max_fails in the configuration: unset, or a number.
MaxFailsOptions == {None, 0, 1, 2}

notrun == <<nodes, appvars, lockvars, ctrvars, qvars, rulevars, max_fails>>

RunInit ==
    /\ nodes = (<<"running">> :> Node(None, Persistent))
    /\ AppInit
    /\ LibInit
    /\ NoRules
    /\ max_fails \in MaxFailsOptions
    /\ RunIdle

\* max_fails is not None and self._respawns >= max_fails + 1
RespawnMaximum == max_fails # None /\ respawns >= max_fails + 1

\* run(): self._respawns = 0
RunStart ==
    /\ runpc = "init"
    /\ respawns' = 0
    /\ runpc' = "while"
    /\ UNCHANGED <<stop_event, retcode, passes, consecutive, notrun>>

\* The loop ends on the stop event: self.end(); return 0
RunEnd ==
    /\ runpc = "while"
    /\ stop_event
    /\ retcode' = <<0>>
    /\ runpc' = "returned"
    /\ UNCHANGED <<respawns, stop_event, passes, consecutive, notrun>>

\* Reached the respawn maximum: return -1
RunGiveUp ==
    /\ runpc = "while"
    /\ ~stop_event
    /\ RespawnMaximum
    /\ retcode' = <<-1>>
    /\ runpc' = "returned"
    /\ UNCHANGED <<respawns, stop_event, passes, consecutive, notrun>>

\* try: self.process()
RunProcess ==
    /\ runpc = "while"
    /\ ~stop_event
    /\ ~RespawnMaximum
    /\ passes < MaxPasses
    /\ passes' = passes + 1
    /\ runpc' = "process"
    /\ UNCHANGED <<respawns, stop_event, retcode, consecutive, notrun>>

\* process() returns.
ProcessReturns ==
    /\ runpc = "process"
    /\ consecutive' = 0
    /\ runpc' = "while"
    /\ UNCHANGED <<respawns, stop_event, retcode, passes, notrun>>

\* except KeyboardInterrupt: return 0
ProcessInterrupted ==
    /\ runpc = "process"
    /\ retcode' = <<0>>
    /\ runpc' = "returned"
    /\ UNCHANGED <<respawns, stop_event, passes, consecutive, notrun>>

\* except Exception: logged, then time.sleep(fail_sleep) begins.
ProcessRaises ==
    /\ runpc = "process"
    /\ consecutive' = consecutive + 1
    /\ runpc' = "sleep"
    /\ UNCHANGED <<respawns, stop_event, retcode, passes, notrun>>

\* The sleep is over: self._respawns += 1
RunSlept ==
    /\ runpc = "sleep"
    /\ respawns' = respawns + 1
    /\ runpc' = "while"
    /\ UNCHANGED <<stop_event, retcode, passes, consecutive, notrun>>

\* stop(), from another thread.
RunStop ==
    /\ ~stop_event
    /\ runpc # "returned"
    /\ stop_event' = TRUE
    /\ UNCHANGED <<respawns, runpc, retcode, passes, consecutive, notrun>>

RunNext ==
    \/ RunStart
    \/ RunEnd
    \/ RunGiveUp
    \/ RunProcess
    \/ ProcessReturns
    \/ ProcessInterrupted
    \/ ProcessRaises
    \/ RunSlept
    \/ RunStop

RunSpec == RunInit /\ [][RunNext]_vars

\* C21: run() returns non-zero for failures only when the last max_fails
\* calls of process() at least have all raised, a call that returned in
\* between starting the count again; and never when max_fails is unset.
C21_ExitAfterConsecutiveFails ==
    retcode = <<-1>> => (max_fails # None /\ consecutive >= max_fails)

\* What holds of the respawn policy: run() gives up exactly when process()
\* has raised max_fails + 1 times in all since run() began, every raise is
\* followed by the sleep and the increment, and an unset max_fails never
\* ends the loop.
C21_ExitAfterTotalFails ==
    /\ retcode = <<-1>> => (max_fails # None /\ respawns = max_fails + 1)
    /\ max_fails = None => retcode # <<-1>>
    /\ runpc \in {"while", "process", "returned"} => respawns <= passes
    /\ consecutive <= respawns + 1

(* ------------------------ the running sweep, again ---------------------- *)
\* The recycled stamp of task t of job j, 0 when unset.
Recycled(j, t) == Or0(TaskValue(j, t, CONTROL_TASK_RECYCLED))

\* C22: no collector requeues or removes the running record of a task
\* before the delay has passed since the task was last requeued.
C22_NotAgainBeforeDelay ==
    [][\A c \in Collectors, t \in TaskIds :
         (/\ CollectorRemoves(c, t)
          /\ Exists(nodes, TaskNode(RunningJob(t), t, CONTROL_TASK_RECYCLED)))
         => Recycled(RunningJob(t), t) + Delay <= now]_vars

\* What holds of the age test: an iteration whose reads succeed and find
\* max(created or 0, recycled or 0) + delay > now goes on to the next task
\* with no lock attempt and nothing written.
C22_SkipsYoungAtRead ==
    [][\A c \in Collectors, t \in TaskIds :
         (/\ cpc[c] = "running"
          /\ t \in ctodo[c]
          /\ t \notin ctodo'[c]
          /\ RunningRead(nodes, t).res = "ok"
          /\ RunningRead(nodes, t).stamp + Delay > now)
         => /\ cpc'[c] = "running"
            /\ nodes' = nodes
            /\ ready' = ready]_vars

(* ------------- a running record left with its control record ----------- *)
\* The handler and state of the running record.
Continuations == {[handler |-> "H", state |-> 0], [handler |-> "G", state |-> 1]}

\* The store with job j and its task t as the splitter and a worker leave
\* them, and /running/<t> in place: with the lock of the worker that runs the
\* task, or with no lock.
LeftoverStore(j, t, k, created, finished, holder) ==
    Commit([nodes |-> (<<"running">> :> Node(None, Persistent))
                      @@ (<<"control">> :> Node(None, Persistent))
                      @@ (<<"control", "jobs">> :> Node(None, Persistent)),
            ready |-> {}, taken |-> {}, seq |-> 1],
           <<OpCreate(JobPath(j), None, Persistent),
             OpCreate(join(JobPath(j), <<CONTROL_VERSION>>), 1, Persistent),
             OpCreate(join(JobPath(j), <<CONTROL_PARENTS>>), 0, Persistent),
             OpCreate(join(JobPath(j), <<CONTROL_ADDED>>), 1, Persistent),
             OpCreate(TasksPath(j), None, Persistent),
             OpCreate(TaskPath(j, t), None, Persistent),
             OpCreate(TaskNode(j, t, CONTROL_TASK_STATUS),
                      IF finished = None THEN "ready" ELSE "finished", Persistent),
             OpCreate(TaskNode(j, t, CONTROL_TASK_CREATED), created, Persistent),
             OpCreate(TaskNode(j, t, CONTROL_TASK_RECYCLED), None, Persistent),
             OpCreate(TaskNode(j, t, CONTROL_TASK_FINISHED), finished, Persistent),
             OpCreate(join(JobPath(j), <<CONTROL_SPLITTED>>), 1, Persistent),
             OpCreate(RunningPath(t),
                      [job_id |-> j, handler |-> k.handler, state |-> k.state],
                      Persistent)>>
           \o (IF holder = Persistent THEN <<>>
               ELSE <<OpCreate(RunningLockPath(t), None, holder)>>)).s

\* /running/<t> is there for a task whose control record exists, finished
\* set or unset; the worker that registered it runs it still, or is gone.
LeftoverInit ==
    \E j \in Jobs, t \in TaskIds, k \in Continuations, created \in {None, 1},
       finished \in {None, 1}, holder \in {Persistent, "w1"} :
        /\ holder # Persistent => finished = None
        /\ nodes = LeftoverStore(j, t, k, created, finished, holder).nodes
        /\ wpc = [w \in Workers |-> IF w = holder THEN "running" ELSE "idle"]
        /\ wentry = [w \in Workers |->
                       IF w = holder
                       THEN [pri |-> DefaultPriority, seq |-> 0,
                             data |-> ReadyData(j, t, k.handler, k.state)]
                       ELSE NoEntry]
        /\ ready = {}
        /\ taken = {}
        /\ seq = 1
        /\ input = {}
        /\ now \in 1..MaxTime
        /\ issued = Jobs \cup TaskIds
        /\ deaths = 0
        /\ cpc = [c \in Collectors |-> "sleep"]
        /\ ctodo = [c \in Collectors |-> {}]
        /\ ccur = [c \in Collectors |-> ""]
        /\ cjob = [c \in Collectors |-> ""]
        /\ cgarbage = [c \in Collectors |-> FALSE]
        /\ LibInit
        /\ NoRules
        /\ max_fails = None
        /\ RunIdle

\* The workers and the collectors; no event comes in.
LeftoverNext ==
    \/ Tick
    \/ \E w \in Workers : WGet(w)
    \/ \E w \in Workers : WRegister(w)
    \/ \E w \in Workers : WStart(w)
    \/ \E w \in Workers, failed \in BOOLEAN : WFinish(w, failed)
    \/ \E w \in Workers : WDie(w)
    \/ \E c \in Collectors : PollRunning(c)
    \/ \E c \in Collectors, t \in TaskIds : PollRunningTask(c, t)
    \/ \E c \in Collectors : RunningLock(c)
    \/ \E c \in Collectors : CheckFinished(c)
    \/ \E c \in Collectors : PushBackRunning(c)
    \/ \E c \in Collectors : RemoveRunning(c)
    \/ \E c \in Collectors : PollControl(c)
    \/ \E c \in Collectors, j \in Jobs : PollControlJob(c, j)
    \/ \E c \in Collectors : ControlLock(c)
    \/ \E c \in Collectors : RemoveControl(c)
    \/ \E c \in Collectors : Sleep(c)

LeftoverSpec == LeftoverInit /\ [][LeftoverNext]_vars

\* The task of collector c's iteration has finished set in its control record.
FinishedSet(c) ==
    /\ Exists(nodes, TaskNode(cjob[c], ccur[c], CONTROL_TASK_FINISHED))
    /\ TaskValue(cjob[c], ccur[c], CONTROL_TASK_FINISHED) # None

\* C23: a collector that holds the lock of a task with finished set is never
\* in _push_back_running; its step deletes /running/<t> and the lock, adds
\* nothing to /ready and leaves recycled as it is.
C23_FinishedNeverRequeued ==
    /\ [](\A c \in Collectors : cpc[c] = "push" => ~FinishedSet(c))
    /\ [][\A c \in Collectors :
            (/\ cpc[c] = "remove"
             /\ ~cgarbage[c]
             /\ cpc'[c] # "remove")
            => /\ FinishedSet(c)
               /\ ~Exists(nodes', RunningPath(ccur[c]))
               /\ ~Exists(nodes', RunningLockPath(ccur[c]))
               /\ ready' = ready
               /\ seq' = seq
               /\ nodes'[TaskNode(cjob[c], ccur[c], CONTROL_TASK_RECYCLED)]
                    = nodes[TaskNode(cjob[c], ccur[c], CONTROL_TASK_RECYCLED)]]_vars

\* A collector holds the lock of a finished task and is about to remove its
\* running record.
C23_Witness ==
    \E c \in Collectors :
        /\ cpc[c] = "remove"
        /\ ~cgarbage[c]
        /\ FinishedSet(c)
        /\ Exists(nodes, RunningPath(ccur[c]))
        /\ nodes[RunningLockPath(ccur[c])].owner = c

\* The nodes a requeue of task t of job j may touch.
RequeueFrame(j, t) ==
    {RunningPath(t), RunningLockPath(t), TaskNode(j, t, CONTROL_TASK_RECYCLED)}

\* C24: the step of _push_back_running for /running/<t> either changes
\* nothing or adds exactly one /ready entry, with task_id = t and the job_id,
\* handler and state of the running record, and apart from that entry changes
\* only /running/<t>, its lock and the task's recycled node.
C24_RequeueKeepsContinuation ==
    [][\A c \in Collectors :
         (/\ cpc[c] = "push"
          /\ cpc'[c] # "push"
          /\ Exists(nodes, RunningPath(ccur[c])))
         => LET t == ccur[c]
                d == nodes[RunningPath(t)].data
            IN \/ nodes' = nodes /\ ready' = ready /\ taken' = taken /\ seq' = seq
               \/ /\ ready \subseteq ready'
                  /\ \E e \in ready' \ ready :
                        /\ ready' \ ready = {e}
                        /\ e.data = [job_id |-> d.job_id, task_id |-> t,
                                     handler |-> d.handler, state |-> d.state]
                  /\ taken' = taken
                  /\ \A p \in (DOMAIN nodes \cup DOMAIN nodes') \ RequeueFrame(d.job_id, t) :
                        /\ p \in DOMAIN nodes
                        /\ p \in DOMAIN nodes'
                        /\ nodes'[p] = nodes[p]]_vars

\* A task that had gone on to handler G and state 1 is back on /ready as it
\* was, with recycled set.
C24_Witness ==
    \E e \in ready :
        /\ e.data.handler = "G"
        /\ e.data.state = 1
        /\ Exists(nodes, TaskNode(e.data.job_id, e.data.task_id, CONTROL_TASK_RECYCLED))
        /\ TaskValue(e.data.job_id, e.data.task_id, CONTROL_TASK_RECYCLED) # None
        /\ ~Exists(nodes, RunningPath(e.data.task_id))

\* C25: the /ready entry a collector's requeue adds has the priority the
\* collector was configured with.
C25_RecycledPriority ==
    [][\A c \in Collectors :
         (cpc[c] = "push" /\ cpc'[c] # "push")
         => \A e \in ready' \ ready : e.pri = RecycledPriority]_vars

\* What holds of the priority: the entry of a requeue has the default
\* priority of lq_put, whatever the collector was configured with.
C25_DefaultPriority ==
    [][\A c \in Collectors :
         (cpc[c] = "push" /\ cpc'[c] # "push")
         => \A e \in ready' \ ready : e.pri = DefaultPriority]_vars

\* C26: a collector's step deletes the running record of a task whose
\* control record exists with finished unset only together with a new
\* /ready entry for the task.
C26_NeverLost ==
    [][\A c \in Collectors, t \in TaskIds :
         (/\ CollectorRemoves(c, t)
          /\ Exists(nodes, TaskNode(RunningJob(t), t, CONTROL_TASK_FINISHED))
          /\ TaskValue(RunningJob(t), t, CONTROL_TASK_FINISHED) = None)
         => \E e \in ready' \ ready : e.data.task_id = t]_vars

\* What holds of the removals: outside the NoNodeError branch a running
\* record of an unfinished task goes only with a new /ready entry.
C26_MainBranchNeverLoses ==
    [][\A c \in Collectors, t \in TaskIds :
         (/\ CollectorRemoves(c, t)
          /\ ~cgarbage[c]
          /\ Exists(nodes, TaskNode(RunningJob(t), t, CONTROL_TASK_FINISHED))
          /\ TaskValue(RunningJob(t), t, CONTROL_TASK_FINISHED) = None)
         => \E e \in ready' \ ready : e.data.task_id = t]_vars

\* The nodes collector c's session owns: the locks it created.
LocksOf(c) == {p \in DOMAIN nodes : nodes[p].owner = c}

\* C27: a collector between two iterations of a sweep, or asleep, holds no
\* lock.
C27_NoLockKept ==
    \A c \in Collectors : cpc[c] \in {"sleep", "running", "control"} => LocksOf(c) = {}

\* What holds of the locks: a collector keeps no lock under /running, and a
\* transaction that commits leaves none of its locks behind.
C27_NoRunningLockKept ==
    \A c \in Collectors :
        cpc[c] \in {"sleep", "running", "control"}
        => \A p \in LocksOf(c) : p[1] # "running"

(* ------------------------- the queue, again ---------------------------- *)
\* The taken-locks consumer k's session owns.
TakenBy(k) == {l \in taken : l.owner = k}

\* Those of them that lock an entry of the queue.  A lock whose entry another
\* consumer has consumed between the reads and the _take locks nothing; whether
\* _take leaves it is the library's affair.
ClaimsOf(k) == {l \in TakenBy(k) : \E e \in ready : e.seq = l.seq}

\* C28: every taken-lock a consumer has created for an entry of the queue is
\* for the entry in value[] while its get() is under way, and for its
\* processing element once get() has returned; a get() that returns hands
\* back the payload of the entry it claimed, and returns nothing only if it
\* leaves no entry locked by a taken-lock of its own.
C28_NoStrandedClaim ==
    /\ [](\A k \in Consumers : \A l \in ClaimsOf(k) :
            IF qpc[k] \in {"idle", "started"}
            THEN qproc[k] # NoEntry /\ qproc[k].seq = l.seq
            ELSE qvalue[k] # NoEntry /\ qvalue[k].seq = l.seq)
    /\ [][\A k \in Consumers :
            (qpc[k] = "exit" /\ qpc'[k] = "idle")
            => /\ qproc'[k] = qvalue[k]
               /\ qret'[k] = qvalue[k].data
               /\ qvalue[k] = NoEntry => ClaimsOf(k) = {}]_vars

\* The same of every taken-lock of the consumer, locked entry or not: this
\* much depends on what _take does with its lock when the entry is gone.
C28_NoLockOfConsumedEntry ==
    \A k \in Consumers : \A l \in TakenBy(k) : \E e \in ready : e.seq = l.seq

\* The loop of a get() has ended on abort_get() while a watch callback of
\* the call is between its reads and its _take.
C28_Witness ==
    \E k \in Consumers :
        /\ qpc[k] = "exit"
        /\ qasked[k]
        /\ qcb[k]
        /\ qcand[k] \in Available

\* C29: with a processing element, get() never enters _inner_get; it returns
\* the payload of the processing element, the same the get() before it
\* returned, and leaves the entries, the taken-locks and the processing
\* element as they are.
C29_GetIdempotent ==
    /\ [](\A k \in Consumers :
            qproc[k] # NoEntry => qpc[k] \in {"idle", "started"})
    /\ [][\A k \in Consumers :
            (qpc[k] = "started" /\ qproc[k] # NoEntry /\ qpc'[k] # "started"
             /\ qpc'[k] # "dead")
            => /\ qpc'[k] = "idle"
               /\ qret'[k] = qproc[k].data
               /\ qret'[k] = qret[k]
               /\ qproc' = qproc
               /\ taken' = taken
               /\ ready' = ready]_vars

\* A consumer with a processing element has called get() again while another
\* entry waits in the queue.
C29_Witness ==
    \E k \in Consumers :
        /\ qpc[k] = "started"
        /\ qproc[k] # NoEntry
        /\ Available # {}
====
